---- MODULE Spec2Model ----
(***************************************************************************)
(* Model of the benchmark orchestration and coverage aggregation engine of *)
(* toy-fuzzer-analyzer (crates/ityfuzz-analyzer): the process runner, the  *)
(* log parser, the per-target series store, the aggregator, the            *)
(* rayon-scoped scheduler of handle_run_command and the replay of stored   *)
(* artifacts by handle_plot_command; with the parser and the runner of the *)
(* legacy analyzer (src/src) where they differ.                            *)
(*                                                                         *)
(* Specifications:                                                         *)
(*   SpecParse  parse_log, one loop iteration per step; the legacy parser  *)
(*   SpecStore  write_csv followed by read_stats_from_csv                  *)
(*   SpecAgg    aggregate_and_plot_data over a map built sample by sample  *)
(*   Spec       handle_run_command: scope, workers, mutex, barrier         *)
(*   SpecRunner run_program_with_timeout and the timeout child             *)
(*   SpecPlot   handle_plot_command over a directory of artifacts          *)
(*   SpecTop    the command line: one of the two commands                  *)
(*   SpecReplay Commands::Run, then Commands::Plot on its output directory *)
(*   SpecLive   Spec with weak fairness of its steps                       *)
(***************************************************************************)
EXTENDS Integers, Sequences, FiniteSets, TLC

VARIABLES
    \* ---- parse_log (SpecParse)
    log_content,        \* the captured text, a sequence of lines
    line_no,            \* number of lines the for loop has consumed
    began_at_millis,    \* Option<u64>: NoAnchor or the anchor
    entries,            \* Vec<StatsEntry> being built
    parse_result,       \* Running or the Result returned
    legacy_parse_result, \* Running or the Result of the legacy parse_log
    \* ---- write_csv / read_stats_from_csv (SpecStore)
    store_entries,      \* the series handed to write_csv
    csv_file,           \* the artifact: NoFile or a sequence of records
    write_result,       \* "none", or "ok" / "err" as write_csv returned
    read_result,        \* "none" or the Result of read_stats_from_csv
    legacy_csv_file,    \* the artifact the legacy write_csv (src/main.rs) wrote
    legacy_read_result, \* NotRead or the Result of the legacy read_stats_from_csv
    \* ---- aggregate_and_plot_data (SpecAgg)
    agg_input,          \* HashMap<String, Vec<StatsEntry>>
    agg_output,         \* NoAggResult or the Global Series computed
    \* ---- handle_run_command (Spec)
    targets,            \* the directories the glob found (their names)
    jobs,               \* args.jobs
    num_threads,        \* threads of the rayon pool built from args.jobs
    fuzz_output,        \* per target, what run_program_with_timeout gives
    contract_dirs,      \* directories the for loop has yet to spawn
    task_pc,            \* per target, where its spawned closure stands
    mutex,              \* the Mutex around all_contract_stats
    all_contract_stats, \* HashMap<String, Vec<StatsEntry>>
    output_dir,         \* the per-target artifacts in args.output_dir
    main_pc,            \* where handle_run_command itself stands
    global_series,      \* what aggregate_and_plot_data computed
    run_result,         \* "none", "ok", "err" or "panic"
    \* ---- run_program_with_timeout (SpecRunner)
    program_path,       \* what program_path names: runnable, missing, not executable
    timeout_on_path,    \* whether Command::new("timeout") can be spawned
    runner_variant,     \* "ityfuzz" (run.rs) or "legacy" (src/main.rs, canonicalize)
    program_stdout,     \* the lines the program writes if left to run
    program_exit,       \* how the program ends if left to run: 0, 1 or "never"
    child,              \* the timeout child: state, exit status, pipe contents
    runner_err,         \* "none" or the step whose error `?` returned
    runner_result,      \* NotReturned or the Result returned
    \* ---- handle_plot_command (SpecPlot)
    plot_output_dir,    \* args.output_dir: "missing", "file" or "dir"
    csv_files,          \* per id, the *.instructions.stats.csv the glob matches
    glob_results,       \* glob entries the for loop has yet to visit
    plot_stats,         \* all_contract_stats of handle_plot_command
    plot_read,          \* ids whose artifact read_stats_from_csv was called on
    plot_pc,            \* where handle_plot_command stands
    plot_series,        \* what aggregate_and_plot_data computed
    plot_result         \* "none", "ok" or "err"

parseVars == <<log_content, line_no, began_at_millis, entries, parse_result,
               legacy_parse_result>>
storeVars == <<store_entries, csv_file, write_result, read_result,
               legacy_csv_file, legacy_read_result>>
aggVars   == <<agg_input, agg_output>>
runVars   == <<targets, jobs, num_threads, fuzz_output, contract_dirs, task_pc, mutex,
               all_contract_stats, output_dir, main_pc, global_series, run_result>>
procVars  == <<program_path, timeout_on_path, runner_variant, program_stdout,
               program_exit, child, runner_err, runner_result>>
plotVars  == <<plot_output_dir, csv_files, glob_results, plot_stats, plot_read,
               plot_pc, plot_series, plot_result>>
vars      == <<parseVars, storeVars, aggVars, runVars, procVars, plotVars>>
\* what no step of handle_run_command changes: the other components' variables,
\* the arguments, the directories found and the subprocess outcomes
runInputs == <<parseVars, storeVars, aggVars, procVars, plotVars,
               targets, jobs, num_threads, fuzz_output>>

(***************************************************************************)
(* Bounds of the model.                                                    *)
(***************************************************************************)
MaxLines == 4          \* lines of a log in SpecParse
MaxEntries == 2        \* samples of a series in SpecStore
MaxSamples == 4        \* samples, over all targets, of an aggregator input
MaxJobs == 2           \* largest args.jobs, and largest default pool size
MaxOutput == 2         \* lines a program writes in SpecRunner

(***************************************************************************)
(* Sequence helpers.                                                       *)
(***************************************************************************)
SeqsUpTo(S, n) == UNION {[1..k -> S] : k \in 0..n}

Range(s) == {s[i] : i \in DOMAIN s}

(***************************************************************************)
(* StatsEntry (types.rs): instructions_covered, branches_covered,          *)
(* time_taken_millis.  total_instructions is read from the log but is not  *)
(* a field ("Exists in log but not used").                                 *)
(***************************************************************************)
StatsEntry(ic, bc, t) ==
    [instructions_covered |-> ic, branches_covered |-> bc, time_taken_millis |-> t]

StatsEntryFields == <<"instructions_covered", "branches_covered", "time_taken_millis">>

(***************************************************************************)
(* Log lines.  A line is classified by the two regular expressions of      *)
(* parse_log: "start" matches start_re only, "cov" matches coverage_re     *)
(* only, "noise" is other non-blank text, "blank" is whitespace.  fits is  *)
(* FALSE when a captured \d+ group does not fit in a u64, so that          *)
(* parse::<u64>() fails.                                                   *)
(***************************************************************************)
StartLine(at)      == [kind |-> "start", ts |-> at, ic |-> 0, bc |-> 0, fits |-> TRUE]
CovLine(ts, ic, bc) == [kind |-> "cov", ts |-> ts, ic |-> ic, bc |-> bc, fits |-> TRUE]
BadCovLine(ts)     == [kind |-> "cov", ts |-> ts, ic |-> 0, bc |-> 0, fits |-> FALSE]
NoiseLine          == [kind |-> "noise", ts |-> 0, ic |-> 0, bc |-> 0, fits |-> TRUE]
BlankLine          == [kind |-> "blank", ts |-> 0, ic |-> 0, bc |-> 0, fits |-> TRUE]

MatchesStart(line) == line.kind = "start"
MatchesCoverage(line) == line.kind = "cov"

\* a check that takes no text for empty
TrimNeverEmpty(log) == FALSE

\* log_content.trim().is_empty()
TrimIsEmpty(log) == \A i \in DOMAIN log : log[i].kind = "blank"

NoAnchor == -1

ParseOk(es) == [ok |-> TRUE, entries |-> es, err |-> "none",
                timestamp |-> 0, start_at |-> 0, contract_id |-> "none"]
ParseErr(kind, ts, at, id) == [ok |-> FALSE, entries |-> <<>>, err |-> kind,
                               timestamp |-> ts, start_at |-> at, contract_id |-> id]

\* no Result yet: the function has not returned
Running == [ok |-> FALSE, entries |-> <<>>, err |-> "running",
            timestamp |-> 0, start_at |-> 0, contract_id |-> "none"]

(***************************************************************************)
(* One iteration of the for loop of parse_log over a line.  The loop state *)
(* is the anchor, the entries and res ("running" or the early Err return). *)
(***************************************************************************)
\* an anchor that every marker line sets anew
LatestAnchor(began, line) ==
    IF MatchesStart(line) /\ line.fits THEN line.ts ELSE began

AnchorAfter(began, line) ==
    IF began = NoAnchor /\ MatchesStart(line) /\ line.fits THEN line.ts ELSE began

AnchorError(began, line) ==
    began = NoAnchor /\ MatchesStart(line) /\ ~line.fits

\* an entry that keeps the absolute timestamp of the line
PushedAbsoluteTime(line, current_began_at) == StatsEntry(line.ic, line.bc, line.ts)

\* the entry pushed for a coverage line at or after the anchor
PushedEntry(line, current_began_at) ==
    StatsEntry(line.ic, line.bc, line.ts - current_began_at)

\* the comparison that accepts a coverage line
AtOrAfterAnchor(timestamp_millis, current_began_at) ==
    timestamp_millis >= current_began_at

\* a silent skip of the line, as the older parsers of this repository do
SkipEarlyTimestamp(st, line, began, contract_id) == [st EXCEPT !.began = began]

\* the else branch: return Err(eyre!("Timestamp {} is before the 'start at'
\* timestamp {} for contract {}", ..))
OnEarlyTimestamp(st, line, began, contract_id) ==
    [st EXCEPT !.began = began,
               !.res = ParseErr("ordering", line.ts, began, contract_id)]

ParseLine(st, line, contract_id) ==
    IF AnchorError(st.began, line)
    THEN [st EXCEPT !.res = ParseErr("number", 0, 0, contract_id)]
    ELSE LET began == AnchorAfter(st.began, line) IN
         IF began # NoAnchor /\ MatchesCoverage(line)
         THEN IF ~line.fits
              THEN [st EXCEPT !.began = began,
                              !.res = ParseErr("number", 0, 0, contract_id)]
              ELSE IF AtOrAfterAnchor(line.ts, began)
              THEN [st EXCEPT !.began = began,
                              !.entries = Append(@, PushedEntry(line, began))]
              ELSE OnEarlyTimestamp(st, line, began, contract_id)
         ELSE [st EXCEPT !.began = began]

(***************************************************************************)
(* entries.sort_by_key(|e| e.time_taken_millis): a stable sort.            *)
(***************************************************************************)
RECURSIVE InsertByKey(_, _)
InsertByKey(sorted, e) ==
    IF sorted = <<>> THEN <<e>>
    ELSE IF sorted[1].time_taken_millis <= e.time_taken_millis
         THEN <<sorted[1]>> \o InsertByKey(Tail(sorted), e)
         ELSE <<e>> \o sorted

RECURSIVE SortByKeyFrom(_, _)
SortByKeyFrom(acc, rest) ==
    IF rest = <<>> THEN acc
    ELSE SortByKeyFrom(InsertByKey(acc, rest[1]), Tail(rest))

\* the entries left in log order
UnsortedByKey(es) == es

SortByKey(es) == SortByKeyFrom(<<>>, es)

(***************************************************************************)
(* entries.dedup_by_key(|e| e.time_taken_millis): of each run of           *)
(* consecutive entries with the same key the first is kept.                *)
(***************************************************************************)
RECURSIVE DedupFrom(_, _)
DedupFrom(acc, rest) ==
    IF rest = <<>> THEN acc
    ELSE IF acc # <<>> /\ acc[Len(acc)].time_taken_millis = rest[1].time_taken_millis
         THEN DedupFrom(acc, Tail(rest))
         ELSE DedupFrom(Append(acc, rest[1]), Tail(rest))

\* of each run of entries with the same key the last is kept
RECURSIVE DedupKeepLast(_)
DedupKeepLast(es) ==
    IF Len(es) <= 1 THEN es
    ELSE IF es[1].time_taken_millis = es[2].time_taken_millis
         THEN DedupKeepLast(Tail(es))
         ELSE <<es[1]>> \o DedupKeepLast(Tail(es))

DedupByKey(es) == DedupFrom(<<>>, es)

(***************************************************************************)
(* The code after the loop: the anchor-missing check, then sort and dedup. *)
(***************************************************************************)
\* the samples returned without looking for a missing anchor
FinishWithoutAnchorCheck(st, log, contract_id) ==
    ParseOk(DedupByKey(SortByKey(st.entries)))

ParseFinish(st, log, contract_id) ==
    IF st.began = NoAnchor /\ ~TrimIsEmpty(log)
    THEN ParseErr("anchor_missing", 0, 0, contract_id)
    ELSE ParseOk(DedupByKey(SortByKey(st.entries)))

ParseStart == [began |-> NoAnchor, entries |-> <<>>, res |-> Running]

RECURSIVE ParseLoop(_, _, _, _)
ParseLoop(st, log, i, contract_id) ==
    IF st.res # Running THEN st.res
    ELSE IF i > Len(log) THEN ParseFinish(st, log, contract_id)
    ELSE ParseLoop(ParseLine(st, log[i], contract_id), log, i + 1, contract_id)

\* parse_log(log_content, contract_id)
ParseLog(log, contract_id) == ParseLoop(ParseStart, log, 1, contract_id)

(***************************************************************************)
(* parse_log of the legacy analyzer (src/src/run.rs, the same in           *)
(* src/src/main.rs).  Its anchor line is "Began at <n>" and its coverage   *)
(* line "Instruction Covered: ..; Branch Covered: .. Timestamp Nanos: ..", *)
(* in nanoseconds; the line kinds "start" and "cov" stand for the lines    *)
(* its two regular expressions match.                                      *)
(***************************************************************************)
LegacyParseLine(st, line, contract_id) ==
    IF AnchorError(st.began, line)
    THEN [st EXCEPT !.res = ParseErr("number", 0, 0, contract_id)]
    ELSE LET began == AnchorAfter(st.began, line) IN
         IF began # NoAnchor /\ MatchesCoverage(line)
         THEN IF ~line.fits
              THEN [st EXCEPT !.began = began,
                              !.res = ParseErr("number", 0, 0, contract_id)]
              ELSE IF AtOrAfterAnchor(line.ts, began)
              THEN [st EXCEPT !.began = began,
                              !.entries = Append(@, PushedEntry(line, began))]
              ELSE [st EXCEPT !.began = began]
         ELSE [st EXCEPT !.began = began]

\* log_content.lines().any(|l| stats_re.is_match(l))
AnyStatLine(log) == \E i \in DOMAIN log : MatchesCoverage(log[i])

LegacyParseFinish(st, log, contract_id) ==
    IF st.began = NoAnchor /\ ~TrimIsEmpty(log) /\ AnyStatLine(log)
    THEN ParseErr("anchor_missing", 0, 0, contract_id)
    ELSE ParseOk(DedupByKey(SortByKey(st.entries)))

RECURSIVE LegacyParseLoop(_, _, _, _)
LegacyParseLoop(st, log, i, contract_id) ==
    IF st.res # Running THEN st.res
    ELSE IF i > Len(log) THEN LegacyParseFinish(st, log, contract_id)
    ELSE LegacyParseLoop(LegacyParseLine(st, log[i], contract_id), log, i + 1, contract_id)

LegacyParseLog(log, contract_id) == LegacyParseLoop(ParseStart, log, 1, contract_id)

(***************************************************************************)
(* Text of a CSV field: a sequence of characters.  A number is written as  *)
(* its decimal digits (itoa) and read back with str::parse::<u64>; a       *)
(* column name is kept as one token.                                       *)
(***************************************************************************)
DigitChars == <<"0", "1", "2", "3", "4", "5", "6", "7", "8", "9">>

IsDigit(c) == \E d \in 1..10 : DigitChars[d] = c

DigitValue(c) == (CHOOSE d \in 1..10 : DigitChars[d] = c) - 1

\* only the last decimal digit is written
LowDigitOnly(n) == <<DigitChars[(n % 10) + 1]>>

RECURSIVE FormatU64(_)
FormatU64(n) ==
    IF n < 10 THEN <<DigitChars[n + 1]>>
    ELSE Append(FormatU64(n \div 10), DigitChars[(n % 10) + 1])

NotANumber == -1

RECURSIVE ParseDigits(_, _)
ParseDigits(acc, text) ==
    IF text = <<>> THEN acc
    ELSE IF ~IsDigit(text[1]) THEN NotANumber
    ELSE ParseDigits(acc * 10 + DigitValue(text[1]), Tail(text))

\* str::parse::<u64>: the empty string and any non-digit are errors
ParseU64(text) == IF text = <<>> THEN NotANumber ELSE ParseDigits(0, text)

(***************************************************************************)
(* The artifact <contract_id>.instructions.stats.csv: absent, or a         *)
(* sequence of records, each a sequence of fields.                         *)
(***************************************************************************)
NoFile == [exists |-> FALSE, records |-> <<>>]
FileOf(records) == [exists |-> TRUE, records |-> records]

\* the header record csv::Writer::serialize writes before the first struct
HeaderRecord == [i \in 1..Len(StatsEntryFields) |-> <<StatsEntryFields[i]>>]

\* serde::Serialize for StatsEntry: the fields in declaration order
SerializeEntry(e) ==
    <<FormatU64(e.instructions_covered), FormatU64(e.branches_covered),
      FormatU64(e.time_taken_millis)>>

\* the records without the header row (has_headers(false))
RecordsWithoutHeader(es) == [i \in 1..Len(es) |-> SerializeEntry(es[i])]

\* the records of the for loop of write_csv (has_headers is the default, true)
SerializedRecords(es) ==
    IF es = <<>> THEN <<>>
    ELSE <<HeaderRecord>> \o [i \in 1..Len(es) |-> SerializeEntry(es[i])]

\* write_csv returning Ok(()): the file holds every record
WriteCsvFile(es) == FileOf(SerializedRecords(es))

ReadOk(es) == [done |-> TRUE, ok |-> TRUE, entries |-> es]
ReadErr == [done |-> TRUE, ok |-> FALSE, entries |-> <<>>]
NotRead == [done |-> FALSE, ok |-> FALSE, entries |-> <<>>]

\* the column of the header record that is named name, 0 if none
ColumnOf(header, name) ==
    IF \E i \in DOMAIN header : header[i] = <<name>>
    THEN CHOOSE i \in DOMAIN header : header[i] = <<name>>
    ELSE 0

\* serde::Deserialize for StatsEntry from one record, by header name
DeserializeEntry(header, record) ==
    LET ci == ColumnOf(header, "instructions_covered")
        cb == ColumnOf(header, "branches_covered")
        ct == ColumnOf(header, "time_taken_millis")
    IN IF Len(record) # Len(header) \/ ci = 0 \/ cb = 0 \/ ct = 0
       THEN ReadErr
       ELSE LET ic == ParseU64(record[ci])
                bc == ParseU64(record[cb])
                t  == ParseU64(record[ct])
            IN IF ic = NotANumber \/ bc = NotANumber \/ t = NotANumber
               THEN ReadErr
               ELSE ReadOk(<<StatsEntry(ic, bc, t)>>)

RECURSIVE DeserializeFrom(_, _, _)
DeserializeFrom(header, records, acc) ==
    IF records = <<>> THEN ReadOk(acc)
    ELSE LET r == DeserializeEntry(header, records[1])
         IN IF ~r.ok THEN ReadErr
            ELSE DeserializeFrom(header, Tail(records), acc \o r.entries)

\* read_stats_from_csv: the first record is the header (has_headers is true)
ReadStatsFromCsv(file) ==
    IF ~file.exists THEN ReadErr
    ELSE IF file.records = <<>> THEN ReadOk(<<>>)
    ELSE DeserializeFrom(file.records[1], Tail(file.records), <<>>)

(***************************************************************************)
(* write_csv and read_stats_from_csv of the legacy analyzer (src/main.rs). *)
(* Its StatsEntry names the time field time_taken_nanos; the value is kept *)
(* in the time field of StatsEntry here.  write_csv writes the header with *)
(* write_record, which leaves the writer's header state untouched, so the  *)
(* first serialize of a struct writes the header row once more.            *)
(***************************************************************************)
LegacyStatsEntryFields == <<"instructions_covered", "branches_covered", "time_taken_nanos">>

LegacyHeaderRecord ==
    [i \in 1..Len(LegacyStatsEntryFields) |-> <<LegacyStatsEntryFields[i]>>]

\* wtr.write_record([..]), then wtr.serialize(entry) for each entry
LegacySerializedRecords(es) ==
    <<LegacyHeaderRecord>>
    \o (IF es = <<>> THEN <<>>
        ELSE <<LegacyHeaderRecord>> \o [i \in 1..Len(es) |-> SerializeEntry(es[i])])

LegacyWriteCsvFile(es) == FileOf(LegacySerializedRecords(es))

LegacyDeserializeEntry(header, record) ==
    LET ci == ColumnOf(header, "instructions_covered")
        cb == ColumnOf(header, "branches_covered")
        ct == ColumnOf(header, "time_taken_nanos")
    IN IF Len(record) # Len(header) \/ ci = 0 \/ cb = 0 \/ ct = 0
       THEN ReadErr
       ELSE LET ic == ParseU64(record[ci])
                bc == ParseU64(record[cb])
                t  == ParseU64(record[ct])
            IN IF ic = NotANumber \/ bc = NotANumber \/ t = NotANumber
               THEN ReadErr
               ELSE ReadOk(<<StatsEntry(ic, bc, t)>>)

RECURSIVE LegacyDeserializeFrom(_, _, _)
LegacyDeserializeFrom(header, records, acc) ==
    IF records = <<>> THEN ReadOk(acc)
    ELSE LET r == LegacyDeserializeEntry(header, records[1])
         IN IF ~r.ok THEN ReadErr
            ELSE LegacyDeserializeFrom(header, Tail(records), acc \o r.entries)

LegacyReadStatsFromCsv(file) ==
    IF ~file.exists THEN ReadErr
    ELSE IF file.records = <<>> THEN ReadOk(<<>>)
    ELSE LegacyDeserializeFrom(file.records[1], Tail(file.records), <<>>)

(***************************************************************************)
(* aggregate_and_plot_data.  The map is a function from target ids to      *)
(* series; the order in which HashMap::values() visits it is not           *)
(* specified, and is taken here as some enumeration of the keys.           *)
(***************************************************************************)
EmptyMap == <<>>

\* a map that holds nothing but the entry inserted last
MapOfLastInsert(map, id, series) == [k \in {id} |-> series]

\* HashMap::insert
MapWith(map, id, series) ==
    [k \in DOMAIN map \cup {id} |-> IF k = id THEN series ELSE map[k]]

RECURSIVE KeysInOrder(_)
KeysInOrder(keys) ==
    IF keys = {} THEN <<>>
    ELSE LET k == CHOOSE x \in keys : TRUE IN <<k>> \o KeysInOrder(keys \ {k})

\* only the first series visited is collected
CollectFirstSeries(map, keys) ==
    IF keys = <<>> THEN <<>>
    ELSE [i \in 1..Len(map[keys[1]]) |-> map[keys[1]][i].time_taken_millis]

\* the first loop: every time_taken_millis of every series, pushed in turn
RECURSIVE CollectTimestamps(_, _)
CollectTimestamps(map, keys) ==
    IF keys = <<>> THEN <<>>
    ELSE [i \in 1..Len(map[keys[1]]) |-> map[keys[1]][i].time_taken_millis]
         \o CollectTimestamps(map, Tail(keys))

\* all_timestamps.sort_unstable()
RECURSIVE InsertSorted(_, _)
InsertSorted(sorted, x) ==
    IF sorted = <<>> THEN <<x>>
    ELSE IF sorted[1] <= x THEN <<sorted[1]>> \o InsertSorted(Tail(sorted), x)
    ELSE <<x>> \o sorted

RECURSIVE SortFrom(_, _)
SortFrom(acc, rest) ==
    IF rest = <<>> THEN acc ELSE SortFrom(InsertSorted(acc, rest[1]), Tail(rest))

\* all_timestamps.dedup()
RECURSIVE DedupTimes(_, _)
DedupTimes(acc, rest) ==
    IF rest = <<>> THEN acc
    ELSE IF acc # <<>> /\ acc[Len(acc)] = rest[1] THEN DedupTimes(acc, Tail(rest))
    ELSE DedupTimes(Append(acc, rest[1]), Tail(rest))

AllTimestamps(map) ==
    DedupTimes(<<>>, SortFrom(<<>>, CollectTimestamps(map, KeysInOrder(DOMAIN map))))

\* a filter that misses the sample taken at the event time itself
SampleCountsStrictlyBefore(e, ts_nano) == e.time_taken_millis < ts_nano

\* a filter that takes only the sample taken at the event time
SampleCountsExactlyAt(e, ts_nano) == e.time_taken_millis = ts_nano

\* .filter(|e| e.time_taken_millis <= ts_nano)
SampleCounts(e, ts_nano) == e.time_taken_millis <= ts_nano

\* .filter(..).max_by_key(|e| e.time_taken_millis).map_or(0, ..): max_by_key
\* returns the last of several maximal elements
RECURSIVE LatestFrom(_, _, _, _)
LatestFrom(stats_vec, ts_nano, found, best) ==
    IF stats_vec = <<>>
    THEN IF found THEN best.instructions_covered ELSE 0
    ELSE LET e == stats_vec[1] IN
         IF SampleCounts(e, ts_nano)
            /\ (~found \/ e.time_taken_millis >= best.time_taken_millis)
         THEN LatestFrom(Tail(stats_vec), ts_nano, TRUE, e)
         ELSE LatestFrom(Tail(stats_vec), ts_nano, found, best)

LatestInstrForContract(stats_vec, ts_nano) ==
    LatestFrom(stats_vec, ts_nano, FALSE, StatsEntry(0, 0, 0))

\* the inner loop: current_total_instructions += latest_instr_for_contract
\* (u64; the model's values stay far below 2^64)
RECURSIVE TotalInstructions(_, _, _)
TotalInstructions(map, keys, ts_nano) ==
    IF keys = <<>> THEN 0
    ELSE LatestInstrForContract(map[keys[1]], ts_nano)
         + TotalInstructions(map, Tail(keys), ts_nano)

\* aggregated_instructions_over_time: BTreeMap<u64, u64> after the outer loop
AggregatedOverTime(map, all_timestamps) ==
    [ts \in Range(all_timestamps) |->
        TotalInstructions(map, KeysInOrder(DOMAIN map), ts)]

\* BTreeMap::into_iter(): the pairs in ascending key order
RECURSIVE IntoIter(_, _)
IntoIter(btree, keys) ==
    IF keys = {} THEN <<>>
    ELSE LET k == CHOOSE x \in keys : \A y \in keys : x <= y
         IN <<[time |-> k, instructions |-> btree[k]]>> \o IntoIter(btree, keys \ {k})

AggResult(series, wrote) == [done |-> TRUE, ok |-> TRUE, series |-> series, wrote |-> wrote]
NoAggResult == [done |-> FALSE, ok |-> FALSE, series |-> <<>>, wrote |-> FALSE]

\* the aggregate CSV and the chart written whatever the input
AggregateAlwaysWrites(map) ==
    LET btree == AggregatedOverTime(map, AllTimestamps(map))
    IN AggResult(IntoIter(btree, DOMAIN btree), TRUE)

\* The Global Series in raw milliseconds and instruction counts, and whether
\* the aggregate CSV and the chart are written.
AggregateAndPlotData(map) ==
    IF DOMAIN map = {} THEN AggResult(<<>>, FALSE)
    ELSE LET all_timestamps == AllTimestamps(map) IN
         IF all_timestamps = <<>> THEN AggResult(<<>>, FALSE)
         ELSE LET btree == AggregatedOverTime(map, all_timestamps)
              IN AggResult(IntoIter(btree, DOMAIN btree), TRUE)

(***************************************************************************)
(* handle_run_command: the rayon pool, the scope and the spawned closures. *)
(***************************************************************************)
\* Mutex<HashMap<..>>: free, or held by the closure of a target or by the
\* thread of handle_run_command ("main")
Unlocked == [held |-> FALSE, by |-> "none"]
LockedBy(who) == [held |-> TRUE, by |-> who]

\* a lock that excludes nobody
CanAlwaysLock(m) == TRUE

\* lock() returns only when the mutex is free
CanLock(m) == ~m.held

\* a pool with one thread more than asked for
PoolOneLarger(n) == IF n = 0 THEN 1..MaxJobs ELSE {n + 1}

\* ThreadPoolBuilder::new().num_threads(n).build(): n threads; with n = 0
\* rayon picks the number itself (RAYON_NUM_THREADS or the CPU count)
ThreadPoolSizes(n) == IF n = 0 THEN 1..MaxJobs ELSE {n}

\* the guard taken at the top of the closure and kept until the insert
LockFirstOrder == <<"lock", "run", "parse", "write", "insert">>

\* the statements of the spawned closure that can block or fail, in order:
\* run_program_with_timeout, parse_log, write_csv, lock(), insert
PublishFirstOrder == <<"run", "parse", "lock", "insert", "write">>
PipelineOrder == <<"run", "parse", "write", "lock", "insert">>

StepAfter(step) ==
    LET i == CHOOSE k \in DOMAIN PipelineOrder : PipelineOrder[k] = step
    IN IF i = Len(PipelineOrder) THEN "done" ELSE PipelineOrder[i + 1]

\* closures that occupy a pool thread
Executing(pcs) == {t \in DOMAIN pcs : pcs[t] \in Range(PipelineOrder)}

\* a scope that ends with its body, without waiting for the closures
ScopeBodyEnded(dirs, pcs) == dirs = <<>>

\* pool.scope returns once the body and every spawned closure have ended
ScopeJoined(dirs, pcs) ==
    dirs = <<>> /\ \A t \in DOMAIN pcs : pcs[t] \in {"done", "panicked"}

\* what run_program_with_timeout returns for a target
RunErr == [ok |-> FALSE, log |-> <<>>]
RunOk(log) == [ok |-> TRUE, log |-> log]

(***************************************************************************)
(* run_program_with_timeout.  The process spawned is the timeout command,  *)
(* with program_path as its argument; timeout runs the program and exits   *)
(* with the program's status, with 124 when it had to end the program at   *)
(* the deadline, with 126 when the program cannot be invoked and with 127  *)
(* when it cannot be found.  The child's standard output is a sequence of  *)
(* lines; a line may hold bytes that are not UTF-8.                        *)
(***************************************************************************)
InvalidUtf8Line == [kind |-> "invalid_utf8", ts |-> 0, ic |-> 0, bc |-> 0, fits |-> TRUE]

\* String::from_utf8_lossy(&output.stdout): an invalid sequence becomes
\* U+FFFD, text that neither regular expression of parse_log matches
FromUtf8Lossy(bytes) ==
    [i \in DOMAIN bytes |->
        IF bytes[i].kind = "invalid_utf8" THEN NoiseLine ELSE bytes[i]]

NoChild == [state |-> "none", status |-> 0, stdout |-> <<>>, stderr |-> FALSE]
ChildRunning(out) == [state |-> "running", status |-> 0, stdout |-> out, stderr |-> FALSE]
ChildExited(status, out, err) ==
    [state |-> "exited", status |-> status, stdout |-> out, stderr |-> err]

\* output.status.code() == Some(124)
TimedOutStatus == 124

\* the status of timeout when it cannot run the program
CannotRunStatus(program) == IF program = "missing" THEN 127 ELSE 126

\* fs::canonicalize(program_path) of the legacy runner fails on a missing path
CanonicalizeFails(variant, program) == variant = "legacy" /\ program = "missing"

\* a non-zero status or a timeout returned as an error
ErrOnFailure(output) ==
    IF output.status # 0 THEN RunErr ELSE RunOk(FromUtf8Lossy(output.stdout))

\* the code after wait_with_output: the status is only logged, then
\* Ok(stdout_str)
RunnerResultFor(output) == RunOk(FromUtf8Lossy(output.stdout))

(***************************************************************************)
(* handle_plot_command: the body of the for loop over the glob results.    *)
(***************************************************************************)
GlobOk(id) == [ok |-> TRUE, id |-> id]
GlobErr(id) == [ok |-> FALSE, id |-> id]

\* a read error that discards what was loaded so far
LoadOrDiscard(stats, contract_id, read) ==
    IF ~read.ok THEN EmptyMap
    ELSE IF read.entries = <<>> THEN stats
    ELSE MapWith(stats, contract_id, read.entries)

\* match read_stats_from_csv(&csv_path): Ok of no entries and Err are logged,
\* Ok of entries is inserted under the id
LoadArtifact(stats, contract_id, read) ==
    IF read.ok /\ read.entries # <<>>
    THEN MapWith(stats, contract_id, read.entries)
    ELSE stats

(***************************************************************************)
(* Each specification runs one component and leaves the variables of the   *)
(* others at these values.                                                 *)
(***************************************************************************)
ParseIdle ==
    /\ log_content = <<>>
    /\ line_no = 0
    /\ began_at_millis = NoAnchor
    /\ entries = <<>>
    /\ parse_result = Running
    /\ legacy_parse_result = Running

StoreIdle ==
    /\ store_entries = <<>>
    /\ csv_file = NoFile
    /\ write_result = "none"
    /\ read_result = NotRead
    /\ legacy_csv_file = NoFile
    /\ legacy_read_result = NotRead

AggIdle == agg_input = EmptyMap /\ agg_output = NoAggResult

RunIdle ==
    /\ targets = {}
    /\ jobs = 1
    /\ num_threads = 1
    /\ fuzz_output = EmptyMap
    /\ contract_dirs = <<>>
    /\ task_pc = EmptyMap
    /\ mutex = Unlocked
    /\ all_contract_stats = EmptyMap
    /\ output_dir = EmptyMap
    /\ main_pc = "idle"
    /\ global_series = NoAggResult
    /\ run_result = "none"

RunnerIdle ==
    /\ program_path = "runnable"
    /\ timeout_on_path = TRUE
    /\ runner_variant = "ityfuzz"
    /\ program_stdout = <<>>
    /\ program_exit = "never"
    /\ child = NoChild
    /\ runner_err = "none"
    /\ runner_result = <<>>

PlotIdle ==
    /\ plot_output_dir = "dir"
    /\ csv_files = EmptyMap
    /\ glob_results = <<>>
    /\ plot_stats = EmptyMap
    /\ plot_read = {}
    /\ plot_pc = "idle"
    /\ plot_series = NoAggResult
    /\ plot_result = "none"

(***************************************************************************)
(* SpecStore: write_csv, then read_stats_from_csv of the same artifact,    *)
(* for every series of at most MaxEntries samples.                         *)
(***************************************************************************)
StoreSamples ==
    {StatsEntry(ic, bc, t) : ic \in {0, 5, 120}, bc \in {2, 31}, t \in {0, 500, 1500}}

StoreInit ==
    /\ store_entries \in SeqsUpTo(StoreSamples, MaxEntries)
    /\ csv_file = NoFile
    /\ write_result = "none"
    /\ read_result = NotRead
    /\ legacy_csv_file = NoFile
    /\ legacy_read_result = NotRead
    /\ ParseIdle
    /\ AggIdle
    /\ RunIdle
    /\ RunnerIdle
    /\ PlotIdle

\* write_csv returns Ok(())
WriteCsvOk ==
    /\ write_result = "none"
    /\ csv_file' = WriteCsvFile(store_entries)
    /\ write_result' = "ok"
    /\ UNCHANGED <<store_entries, read_result, legacy_csv_file, legacy_read_result,
                   parseVars, aggVars, runVars, procVars, plotVars>>

\* write_csv returns Err: the file could not be created, or a write or the
\* flush failed and only the first k records reached the file
WriteCsvErr ==
    /\ write_result = "none"
    /\ \/ csv_file' = NoFile
       \/ \E k \in 0..Len(SerializedRecords(store_entries)) - 1 :
             csv_file' = FileOf(SubSeq(SerializedRecords(store_entries), 1, k))
    /\ write_result' = "err"
    /\ UNCHANGED <<store_entries, read_result, legacy_csv_file, legacy_read_result,
                   parseVars, aggVars, runVars, procVars, plotVars>>

\* read_stats_from_csv of the artifact, once write_csv has returned
ReadCsv ==
    /\ write_result # "none"
    /\ read_result = NotRead
    /\ read_result' = ReadStatsFromCsv(csv_file)
    /\ UNCHANGED <<store_entries, csv_file, write_result, legacy_csv_file, legacy_read_result,
                   parseVars, aggVars, runVars, procVars, plotVars>>

\* the legacy write_csv returns Ok(())
LegacyWriteCsv ==
    /\ ~legacy_csv_file.exists
    /\ legacy_csv_file' = LegacyWriteCsvFile(store_entries)
    /\ UNCHANGED <<store_entries, csv_file, write_result, read_result, legacy_read_result,
                   parseVars, aggVars, runVars, procVars, plotVars>>

\* the legacy read_stats_from_csv of the artifact just written
LegacyReadCsv ==
    /\ legacy_csv_file.exists
    /\ legacy_read_result = NotRead
    /\ legacy_read_result' = LegacyReadStatsFromCsv(legacy_csv_file)
    /\ UNCHANGED <<store_entries, csv_file, write_result, read_result, legacy_csv_file,
                   parseVars, aggVars, runVars, procVars, plotVars>>

StoreNext == WriteCsvOk \/ WriteCsvErr \/ ReadCsv \/ LegacyWriteCsv \/ LegacyReadCsv

SpecStore == StoreInit /\ [][StoreNext]_vars

(***************************************************************************)
(* SpecParse: parse_log run line by line on every log of at most MaxLines  *)
(* lines drawn from ParseLines.                                            *)
(***************************************************************************)
ParseContract == "c1"

ParseLines ==
    {StartLine(1000), StartLine(1500), NoiseLine, BlankLine, BadCovLine(1500)}
    \cup {CovLine(ts, ic, 2) : ts \in {1000, 1500, 2000}, ic \in {5, 7}}

ParseInit ==
    /\ log_content \in SeqsUpTo(ParseLines, MaxLines)
    /\ line_no = 0
    /\ began_at_millis = NoAnchor
    /\ entries = <<>>
    /\ parse_result = Running
    /\ legacy_parse_result = Running
    /\ StoreIdle
    /\ AggIdle
    /\ RunIdle
    /\ RunnerIdle
    /\ PlotIdle

ParseStep ==
    /\ parse_result = Running
    /\ line_no < Len(log_content)
    /\ LET st == ParseLine([began |-> began_at_millis, entries |-> entries,
                            res |-> Running],
                           log_content[line_no + 1], ParseContract)
       IN /\ began_at_millis' = st.began
          /\ entries' = st.entries
          /\ parse_result' = st.res
    /\ line_no' = line_no + 1
    /\ UNCHANGED <<log_content, legacy_parse_result,
                   storeVars, aggVars, runVars, procVars, plotVars>>

ParseEnd ==
    /\ parse_result = Running
    /\ line_no = Len(log_content)
    /\ parse_result' = ParseFinish([began |-> began_at_millis, entries |-> entries,
                                    res |-> Running], log_content, ParseContract)
    /\ UNCHANGED <<log_content, line_no, began_at_millis, entries, legacy_parse_result,
                   storeVars, aggVars, runVars, procVars, plotVars>>

\* the legacy parse_log applied to the same text
LegacyParse ==
    /\ legacy_parse_result = Running
    /\ legacy_parse_result' = LegacyParseLog(log_content, ParseContract)
    /\ UNCHANGED <<log_content, line_no, began_at_millis, entries, parse_result,
                   storeVars, aggVars, runVars, procVars, plotVars>>

ParseNext == ParseStep \/ ParseEnd \/ LegacyParse

SpecParse == ParseInit /\ [][ParseNext]_vars

(***************************************************************************)
(* SpecAgg: the input map is built sample by sample (each series kept in   *)
(* ascending time order, as parse_log leaves it), then aggregated.         *)
(***************************************************************************)
AggTargets == {"A", "B"}
AggTimes == {0, 2000, 5000, 8000}
AggInstructions == {5, 10, 15, 20}

SampleCount(map) == Len(CollectTimestamps(map, KeysInOrder(DOMAIN map)))

AggInit ==
    /\ agg_input = EmptyMap
    /\ agg_output = NoAggResult
    /\ ParseIdle
    /\ StoreIdle
    /\ RunIdle
    /\ RunnerIdle
    /\ PlotIdle

\* a key with an empty series (plot mode never inserts one, run mode neither;
\* the function accepts it)
AggAddTarget ==
    /\ ~agg_output.done
    /\ \E id \in AggTargets \ DOMAIN agg_input :
          agg_input' = MapWith(agg_input, id, <<>>)
    /\ UNCHANGED <<agg_output, parseVars, storeVars, runVars, procVars, plotVars>>

AggAddSample ==
    /\ ~agg_output.done
    /\ SampleCount(agg_input) < MaxSamples
    /\ \E id \in AggTargets, t \in AggTimes, ic \in AggInstructions :
          LET old == IF id \in DOMAIN agg_input THEN agg_input[id] ELSE <<>>
          IN /\ (IF old = <<>> THEN TRUE ELSE old[Len(old)].time_taken_millis < t)
             /\ agg_input' = MapWith(agg_input, id, Append(old, StatsEntry(ic, 1, t)))
    /\ UNCHANGED <<agg_output, parseVars, storeVars, runVars, procVars, plotVars>>

AggRun ==
    /\ ~agg_output.done
    /\ agg_output' = AggregateAndPlotData(agg_input)
    /\ UNCHANGED <<agg_input, parseVars, storeVars, runVars, procVars, plotVars>>

AggNext == AggAddTarget \/ AggAddSample \/ AggRun

SpecAgg == AggInit /\ [][AggNext]_vars

(***************************************************************************)
(* Spec: handle_run_command.  The glob finds any subset of ContractIds;    *)
(* each target's subprocess outcome is fixed at the start; the closures    *)
(* interleave on the pool's threads.                                       *)
(***************************************************************************)
ContractIds == {"c1", "c2", "c3"}
ContractOrder == <<"c1", "c2", "c3">>      \* glob yields paths in sorted order

RunOutcomes ==
    { RunErr,
      RunOk(<<>>),
      RunOk(<<StartLine(1000), CovLine(1500, 5, 2)>>),
      RunOk(<<StartLine(1000), CovLine(2000, 7, 2), CovLine(1000, 5, 2)>>),
      RunOk(<<StartLine(1500), CovLine(1000, 5, 2)>>),
      RunOk(<<StartLine(1000), CovLine(1500, 5, 2), BadCovLine(2000)>>),
      RunOk(<<NoiseLine>>) }

RECURSIVE DirsOf(_, _)
DirsOf(order, found) ==
    IF order = <<>> THEN <<>>
    ELSE (IF order[1] \in found THEN <<order[1]>> ELSE <<>>) \o DirsOf(Tail(order), found)

\* Ok(entries) of parse_log for the output of target t
ParsedEntries(t) == ParseLog(fuzz_output[t].log, t).entries

Init ==
    /\ targets \in SUBSET ContractIds
    /\ jobs \in 0..MaxJobs
    /\ num_threads \in ThreadPoolSizes(jobs)
    /\ fuzz_output \in [targets -> RunOutcomes]
    /\ contract_dirs = DirsOf(ContractOrder, targets)
    /\ task_pc = [t \in targets |-> "unspawned"]
    /\ mutex = Unlocked
    /\ all_contract_stats = EmptyMap
    /\ output_dir = EmptyMap
    /\ main_pc = "glob"
    /\ global_series = NoAggResult
    /\ run_result = "none"
    /\ ParseIdle
    /\ StoreIdle
    /\ AggIdle
    /\ RunnerIdle
    /\ PlotIdle

\* the scope entered with no directory to spawn for
EmptyDirsEnterScope ==
    /\ main_pc = "glob"
    /\ contract_dirs = <<>>
    /\ main_pc' = "spawning"
    /\ UNCHANGED <<runInputs, contract_dirs, task_pc,
                   mutex, all_contract_stats, output_dir, global_series, run_result>>

\* if contract_dirs.is_empty() { return Err(..) }
NoContractDirs ==
    /\ main_pc = "glob"
    /\ contract_dirs = <<>>
    /\ main_pc' = "returned"
    /\ run_result' = "err"
    /\ UNCHANGED <<runInputs, contract_dirs, task_pc,
                   mutex, all_contract_stats, output_dir, global_series>>

\* pool.scope(|s| ..): the body starts on one thread of the pool
EnterScope ==
    /\ main_pc = "glob"
    /\ contract_dirs # <<>>
    /\ main_pc' = "spawning"
    /\ UNCHANGED <<runInputs, contract_dirs, task_pc,
                   mutex, all_contract_stats, output_dir, global_series, run_result>>

\* s.spawn(move |_| ..) for the next directory
Spawn ==
    /\ main_pc = "spawning"
    /\ contract_dirs # <<>>
    /\ task_pc' = [task_pc EXCEPT ![Head(contract_dirs)] = "queued"]
    /\ contract_dirs' = Tail(contract_dirs)
    /\ UNCHANGED <<runInputs, mutex, all_contract_stats,
                   output_dir, main_pc, global_series, run_result>>

\* the for loop ends; the body's thread now waits for the closures, running them
EndOfLoop ==
    /\ main_pc = "spawning"
    /\ contract_dirs = <<>>
    /\ main_pc' = "join"
    /\ UNCHANGED <<runInputs, contract_dirs, task_pc,
                   mutex, all_contract_stats, output_dir, global_series, run_result>>

\* threads of the pool that run neither a closure nor the scope body
FreeThreads ==
    num_threads - Cardinality(Executing(task_pc))
                - (IF main_pc = "spawning" THEN 1 ELSE 0)

\* a free thread takes a queued closure and calls run_program_with_timeout
StartTask(t) ==
    /\ task_pc[t] = "queued"
    /\ FreeThreads > 0
    /\ task_pc' = [task_pc EXCEPT ![t] = PipelineOrder[1]]
    /\ UNCHANGED <<runInputs, contract_dirs, mutex,
                   all_contract_stats, output_dir, main_pc, global_series, run_result>>

\* run_program_with_timeout returns: Err, Ok of blank text, or Ok of a log
RunnerReturns(t) ==
    /\ task_pc[t] = "run"
    /\ task_pc' = [task_pc EXCEPT ![t] =
                     IF ~fuzz_output[t].ok \/ TrimIsEmpty(fuzz_output[t].log)
                     THEN "done" ELSE StepAfter("run")]
    /\ UNCHANGED <<runInputs, contract_dirs, mutex,
                   all_contract_stats, output_dir, main_pc, global_series, run_result>>

\* the Err of parse_log not looked at: the closure goes on to write_csv
ParseErrIgnored(t) ==
    /\ task_pc[t] = "parse"
    /\ task_pc' = [task_pc EXCEPT ![t] = StepAfter("parse")]
    /\ UNCHANGED <<runInputs, contract_dirs, mutex,
                   all_contract_stats, output_dir, main_pc, global_series, run_result>>

\* parse_log returns: Err, Ok of no entries, or Ok of entries
Parse(t) ==
    /\ task_pc[t] = "parse"
    /\ LET r == ParseLog(fuzz_output[t].log, t)
       IN task_pc' = [task_pc EXCEPT ![t] =
                         IF ~r.ok \/ r.entries = <<>> THEN "done" ELSE StepAfter("parse")]
    /\ UNCHANGED <<runInputs, contract_dirs, mutex,
                   all_contract_stats, output_dir, main_pc, global_series, run_result>>

\* write_csv returns Ok(())
WriteCsv(t) ==
    /\ task_pc[t] = "write"
    /\ output_dir' = MapWith(output_dir, t, WriteCsvFile(ParsedEntries(t)))
    /\ task_pc' = [task_pc EXCEPT ![t] = StepAfter("write")]
    /\ UNCHANGED <<runInputs, contract_dirs, mutex,
                   all_contract_stats, main_pc, global_series, run_result>>

\* write_csv returns Err and .expect("Failed to write CSV") panics; the file
\* was not created, or holds only the first k records
WriteCsvPanics(t) ==
    /\ task_pc[t] = "write"
    /\ \/ output_dir' = output_dir
       \/ \E k \in 0..Len(SerializedRecords(ParsedEntries(t))) - 1 :
             output_dir' = MapWith(output_dir, t,
                              FileOf(SubSeq(SerializedRecords(ParsedEntries(t)), 1, k)))
    /\ task_pc' = [task_pc EXCEPT ![t] = "panicked"]
    /\ UNCHANGED <<runInputs, contract_dirs, mutex,
                   all_contract_stats, main_pc, global_series, run_result>>

\* all_contract_stats.lock().unwrap()
Lock(t) ==
    /\ task_pc[t] = "lock"
    /\ CanLock(mutex)
    /\ mutex' = LockedBy(t)
    /\ task_pc' = [task_pc EXCEPT ![t] = StepAfter("lock")]
    /\ UNCHANGED <<runInputs, contract_dirs,
                   all_contract_stats, output_dir, main_pc, global_series, run_result>>

\* .insert(contract_id.clone(), entries); the guard is dropped with the statement
Insert(t) ==
    /\ task_pc[t] = "insert"
    /\ all_contract_stats' = MapWith(all_contract_stats, t, ParsedEntries(t))
    /\ mutex' = IF mutex = LockedBy(t) THEN Unlocked ELSE mutex
    /\ task_pc' = [task_pc EXCEPT ![t] = StepAfter("insert")]
    /\ UNCHANGED <<runInputs, contract_dirs,
                   output_dir, main_pc, global_series, run_result>>

\* pool.scope returns: no closure panicked
ScopeReturns ==
    /\ main_pc = "join"
    /\ ScopeJoined(contract_dirs, task_pc)
    /\ \A t \in targets : task_pc[t] # "panicked"
    /\ main_pc' = "check_empty"
    /\ UNCHANGED <<runInputs, contract_dirs, task_pc,
                   mutex, all_contract_stats, output_dir, global_series, run_result>>

\* pool.scope resumes the panic of a closure: handle_run_command unwinds
ScopePanics ==
    /\ main_pc = "join"
    /\ ScopeJoined(contract_dirs, task_pc)
    /\ \E t \in targets : task_pc[t] = "panicked"
    /\ main_pc' = "returned"
    /\ run_result' = "panic"
    /\ UNCHANGED <<runInputs, contract_dirs, task_pc,
                   mutex, all_contract_stats, output_dir, global_series>>

\* if all_contract_stats.lock().unwrap().is_empty(): the lock is taken
LockForCheck ==
    /\ main_pc = "check_empty"
    /\ CanLock(mutex)
    /\ mutex' = LockedBy("main")
    /\ main_pc' = "checking"
    /\ UNCHANGED <<runInputs, contract_dirs, task_pc,
                   all_contract_stats, output_dir, global_series, run_result>>

\* the check left out: the aggregator is called on whatever the map holds
CheckEmptySkipped ==
    /\ main_pc = "checking"
    /\ mutex' = Unlocked
    /\ main_pc' = "aggregate"
    /\ UNCHANGED <<runInputs, contract_dirs, task_pc,
                   all_contract_stats, output_dir, global_series, run_result>>

\* the guard of the condition kept while the branch runs
CheckEmptyKeepsGuard ==
    /\ main_pc = "checking"
    /\ main_pc' = IF DOMAIN all_contract_stats = {} THEN "finish" ELSE "aggregate"
    /\ UNCHANGED <<runInputs, contract_dirs, task_pc, mutex,
                   all_contract_stats, output_dir, global_series, run_result>>

\* is_empty() is evaluated and the guard dropped at the end of the condition
CheckEmpty ==
    /\ main_pc = "checking"
    /\ mutex' = Unlocked
    /\ main_pc' = IF DOMAIN all_contract_stats = {} THEN "finish" ELSE "aggregate"
    /\ UNCHANGED <<runInputs, contract_dirs, task_pc,
                   all_contract_stats, output_dir, global_series, run_result>>

\* aggregate_and_plot_data(&all_contract_stats.lock().unwrap(), ..): the lock
LockForAggregate ==
    /\ main_pc = "aggregate"
    /\ CanLock(mutex)
    /\ mutex' = LockedBy("main")
    /\ main_pc' = "aggregating"
    /\ UNCHANGED <<runInputs, contract_dirs, task_pc,
                   all_contract_stats, output_dir, global_series, run_result>>

\* aggregate_and_plot_data returns and the guard is dropped
Aggregate ==
    /\ main_pc = "aggregating"
    /\ global_series' = AggregateAndPlotData(all_contract_stats)
    /\ mutex' = Unlocked
    /\ main_pc' = "finish"
    /\ UNCHANGED <<runInputs, contract_dirs, task_pc,
                   all_contract_stats, output_dir, run_result>>

\* pb.finish_with_message(..); Ok(())
Finish ==
    /\ main_pc = "finish"
    /\ main_pc' = "returned"
    /\ run_result' = "ok"
    /\ UNCHANGED <<runInputs, contract_dirs, task_pc,
                   mutex, all_contract_stats, output_dir, global_series>>

Next ==
    \/ NoContractDirs
    \/ EnterScope
    \/ Spawn
    \/ EndOfLoop
    \/ \E t \in targets : StartTask(t)
    \/ \E t \in targets : RunnerReturns(t)
    \/ \E t \in targets : Parse(t)
    \/ \E t \in targets : WriteCsv(t)
    \/ \E t \in targets : WriteCsvPanics(t)
    \/ \E t \in targets : Lock(t)
    \/ \E t \in targets : Insert(t)
    \/ ScopeReturns
    \/ ScopePanics
    \/ LockForCheck
    \/ CheckEmpty
    \/ LockForAggregate
    \/ Aggregate
    \/ Finish

Spec == Init /\ [][Next]_vars

\* one output for each way a closure can go: run_program_with_timeout
\* returns Err, parse_log returns Err, parse_log returns entries
LiveOutcomes ==
    { RunErr,
      RunOk(<<NoiseLine>>),
      RunOk(<<StartLine(1000), CovLine(1500, 5, 2)>>) }

LiveInit == Init /\ \A t \in targets : fuzz_output[t] \in LiveOutcomes

\* every thread that can take a step takes one in the end: the subprocesses
\* end (the timeout command sees to it) and the pool's threads keep running
SpecLive == LiveInit /\ [][Next]_vars /\ WF_vars(Next)

(***************************************************************************)
(* SpecRunner: run_program_with_timeout for every program, every output of *)
(* at most MaxOutput lines and every way the program can end.              *)
(***************************************************************************)
OutputLines == {StartLine(1000), CovLine(1500, 5, 2), BlankLine, InvalidUtf8Line}

RunnerInit ==
    /\ program_path \in {"runnable", "missing", "not_executable"}
    /\ timeout_on_path \in BOOLEAN
    /\ runner_variant \in {"ityfuzz", "legacy"}
    /\ program_stdout \in SeqsUpTo(OutputLines, MaxOutput)
    /\ program_exit \in {"0", "1", "never"}
    /\ child = NoChild
    /\ runner_err = "none"
    /\ runner_result = <<>>
    /\ ParseIdle
    /\ StoreIdle
    /\ AggIdle
    /\ RunIdle
    /\ PlotIdle

\* fs::canonicalize(program_path).wrap_err_with(..)? returns Err
CanonicalizeErr ==
    /\ runner_result = <<>>
    /\ child = NoChild
    /\ CanonicalizeFails(runner_variant, program_path)
    /\ runner_err' = "canonicalize"
    /\ runner_result' = <<RunErr>>
    /\ UNCHANGED <<program_path, timeout_on_path, runner_variant, program_stdout,
                   program_exit, child, parseVars, storeVars, aggVars, runVars, plotVars>>

\* Command::new("timeout")...spawn().wrap_err_with(..)? returns Err
SpawnErr ==
    /\ runner_result = <<>>
    /\ child = NoChild
    /\ ~CanonicalizeFails(runner_variant, program_path)
    /\ ~timeout_on_path
    /\ runner_err' = "spawn"
    /\ runner_result' = <<RunErr>>
    /\ UNCHANGED <<program_path, timeout_on_path, runner_variant, program_stdout,
                   program_exit, child, parseVars, storeVars, aggVars, runVars, plotVars>>

\* spawn() returns the child: the timeout command runs
SpawnChild ==
    /\ runner_result = <<>>
    /\ child = NoChild
    /\ ~CanonicalizeFails(runner_variant, program_path)
    /\ timeout_on_path
    /\ child' = ChildRunning(<<>>)
    /\ UNCHANGED <<program_path, timeout_on_path, runner_variant, program_stdout,
                   program_exit, runner_err, runner_result,
                   parseVars, storeVars, aggVars, runVars, plotVars>>

\* timeout cannot run the program: it writes a message to its standard
\* error and exits with 126 or 127, having written nothing to standard output
ChildCannotRun ==
    /\ runner_result = <<>>
    /\ child = ChildRunning(<<>>)
    /\ program_path # "runnable"
    /\ child' = ChildExited(CannotRunStatus(program_path), <<>>, TRUE)
    /\ UNCHANGED <<program_path, timeout_on_path, runner_variant, program_stdout,
                   program_exit, runner_err, runner_result,
                   parseVars, storeVars, aggVars, runVars, plotVars>>

\* the program writes its next line to the pipe
ProgramWrites ==
    /\ runner_result = <<>>
    /\ child.state = "running"
    /\ program_path = "runnable"
    /\ Len(child.stdout) < Len(program_stdout)
    /\ child' = ChildRunning(Append(child.stdout, program_stdout[Len(child.stdout) + 1]))
    /\ UNCHANGED <<program_path, timeout_on_path, runner_variant, program_stdout,
                   program_exit, runner_err, runner_result,
                   parseVars, storeVars, aggVars, runVars, plotVars>>

\* the program ends by itself and timeout exits with the program's status
ProgramExits ==
    /\ runner_result = <<>>
    /\ child.state = "running"
    /\ program_path = "runnable"
    /\ Len(child.stdout) = Len(program_stdout)
    /\ program_exit # "never"
    /\ child' = ChildExited(IF program_exit = "0" THEN 0 ELSE 1, child.stdout,
                            program_exit # "0")
    /\ UNCHANGED <<program_path, timeout_on_path, runner_variant, program_stdout,
                   program_exit, runner_err, runner_result,
                   parseVars, storeVars, aggVars, runVars, plotVars>>

\* the deadline passes: timeout ends the program and exits with 124; the
\* pipe holds what the program had written so far
ProgramTimesOut ==
    /\ runner_result = <<>>
    /\ child.state = "running"
    /\ program_path = "runnable"
    /\ child' = ChildExited(TimedOutStatus, child.stdout, FALSE)
    /\ UNCHANGED <<program_path, timeout_on_path, runner_variant, program_stdout,
                   program_exit, runner_err, runner_result,
                   parseVars, storeVars, aggVars, runVars, plotVars>>

\* child.wait_with_output() returns the Output and the function returns
WaitWithOutput ==
    /\ runner_result = <<>>
    /\ child.state = "exited"
    /\ runner_result' = <<RunnerResultFor(child)>>
    /\ UNCHANGED <<program_path, timeout_on_path, runner_variant, program_stdout,
                   program_exit, child, runner_err,
                   parseVars, storeVars, aggVars, runVars, plotVars>>

\* child.wait_with_output()? returns Err: waiting or reading the pipes failed
WaitErr ==
    /\ runner_result = <<>>
    /\ child.state = "exited"
    /\ runner_err' = "wait"
    /\ runner_result' = <<RunErr>>
    /\ UNCHANGED <<program_path, timeout_on_path, runner_variant, program_stdout,
                   program_exit, child, parseVars, storeVars, aggVars, runVars, plotVars>>

RunnerNext ==
    \/ CanonicalizeErr
    \/ SpawnErr
    \/ SpawnChild
    \/ ChildCannotRun
    \/ ProgramWrites
    \/ ProgramExits
    \/ ProgramTimesOut
    \/ WaitWithOutput
    \/ WaitErr

SpecRunner == RunnerInit /\ [][RunnerNext]_vars

(***************************************************************************)
(* SpecPlot: handle_plot_command.  args.output_dir is missing, a file, or  *)
(* a directory; in a directory the glob yields, for each id of PlotIds,    *)
(* nothing, an error, or the path of an artifact from PlotArtifacts.       *)
(***************************************************************************)
PlotIds == {"c1", "c2", "c3"}

\* a record with a field that is no number, and one with a field missing
BadNumberRecord == <<<<"5">>, <<"x">>, <<"5", "0", "0">>>>
ShortRecord == <<<<"5">>, <<"2">>>>

PlotArtifacts ==
    { WriteCsvFile(<<StatsEntry(5, 2, 500)>>),
      WriteCsvFile(<<StatsEntry(5, 2, 0), StatsEntry(9, 3, 2000)>>),
      FileOf(<<>>),
      FileOf(<<HeaderRecord>>),
      NoFile,                                   \* cannot be opened
      FileOf(<<HeaderRecord, BadNumberRecord>>),
      FileOf(<<HeaderRecord, SerializeEntry(StatsEntry(5, 2, 500)), ShortRecord>>) }

\* the entries of the glob, in path order
RECURSIVE GlobEntries(_, _, _)
GlobEntries(order, files, errs) ==
    IF order = <<>> THEN <<>>
    ELSE (IF order[1] \in files THEN <<GlobOk(order[1])>>
          ELSE IF order[1] \in errs THEN <<GlobErr(order[1])>>
          ELSE <<>>) \o GlobEntries(Tail(order), files, errs)

PlotInit ==
    /\ plot_output_dir \in {"missing", "file", "dir"}
    /\ \E files \in SUBSET PlotIds :
          /\ plot_output_dir # "dir" => files = {}
          /\ csv_files \in [files -> PlotArtifacts]
          /\ \E errs \in SUBSET (PlotIds \ files) :
                /\ plot_output_dir # "dir" => errs = {}
                /\ glob_results = GlobEntries(ContractOrder, files, errs)
    /\ plot_stats = EmptyMap
    /\ plot_read = {}
    /\ plot_pc = "start"
    /\ plot_series = NoAggResult
    /\ plot_result = "none"
    /\ ParseIdle
    /\ StoreIdle
    /\ AggIdle
    /\ RunIdle
    /\ RunnerIdle

\* if !args.output_dir.exists() { return Err(..) }
PlotDirMissing ==
    /\ plot_pc = "start"
    /\ plot_output_dir = "missing"
    /\ plot_pc' = "returned"
    /\ plot_result' = "err"
    /\ UNCHANGED <<plot_output_dir, csv_files, glob_results, plot_stats, plot_read,
                   plot_series, parseVars, storeVars, aggVars, runVars, procVars>>

\* if !args.output_dir.is_dir() { return Err(..) }
PlotNotADir ==
    /\ plot_pc = "start"
    /\ plot_output_dir = "file"
    /\ plot_pc' = "returned"
    /\ plot_result' = "err"
    /\ UNCHANGED <<plot_output_dir, csv_files, glob_results, plot_stats, plot_read,
                   plot_series, parseVars, storeVars, aggVars, runVars, procVars>>

\* the map is created and the glob started
PlotGlob ==
    /\ plot_pc = "start"
    /\ plot_output_dir = "dir"
    /\ plot_pc' = "loop"
    /\ UNCHANGED <<plot_output_dir, csv_files, glob_results, plot_stats, plot_read,
                   plot_series, plot_result,
                   parseVars, storeVars, aggVars, runVars, procVars>>

\* Err(e) => info!("Error accessing file during CSV glob")
PlotGlobError ==
    /\ plot_pc = "loop"
    /\ glob_results # <<>>
    /\ ~Head(glob_results).ok
    /\ glob_results' = Tail(glob_results)
    /\ UNCHANGED <<plot_output_dir, csv_files, plot_stats, plot_read, plot_pc,
                   plot_series, plot_result,
                   parseVars, storeVars, aggVars, runVars, procVars>>

\* Ok(csv_path) => the artifact is read and its entries, if any, inserted
PlotReadArtifact ==
    /\ plot_pc = "loop"
    /\ glob_results # <<>>
    /\ Head(glob_results).ok
    /\ LET contract_id == Head(glob_results).id
       IN /\ plot_read' = plot_read \cup {contract_id}
          /\ plot_stats' = LoadArtifact(plot_stats, contract_id,
                                        ReadStatsFromCsv(csv_files[contract_id]))
    /\ glob_results' = Tail(glob_results)
    /\ UNCHANGED <<plot_output_dir, csv_files, plot_pc, plot_series, plot_result,
                   parseVars, storeVars, aggVars, runVars, procVars>>

\* if all_contract_stats.is_empty() { return Ok(()) }
PlotNoData ==
    /\ plot_pc = "loop"
    /\ glob_results = <<>>
    /\ DOMAIN plot_stats = {}
    /\ plot_pc' = "returned"
    /\ plot_result' = "ok"
    /\ UNCHANGED <<plot_output_dir, csv_files, glob_results, plot_stats, plot_read,
                   plot_series, parseVars, storeVars, aggVars, runVars, procVars>>

\* aggregate_and_plot_data(&all_contract_stats, ..)?; Ok(())
PlotAggregate ==
    /\ plot_pc = "loop"
    /\ glob_results = <<>>
    /\ DOMAIN plot_stats # {}
    /\ plot_series' = AggregateAndPlotData(plot_stats)
    /\ plot_pc' = "returned"
    /\ plot_result' = "ok"
    /\ UNCHANGED <<plot_output_dir, csv_files, glob_results, plot_stats, plot_read,
                   parseVars, storeVars, aggVars, runVars, procVars>>

PlotNext ==
    \/ PlotDirMissing
    \/ PlotNotADir
    \/ PlotGlob
    \/ PlotGlobError
    \/ PlotReadArtifact
    \/ PlotNoData
    \/ PlotAggregate

SpecPlot == PlotInit /\ [][PlotNext]_vars

(***************************************************************************)
(* SpecTop: the command line runs one of the two commands, Commands::Run   *)
(* (handle_run_command) or Commands::Plot (handle_plot_command).           *)
(***************************************************************************)
TopInit == Init \/ PlotInit

TopNext ==
    \/ NoContractDirs
    \/ EnterScope
    \/ Spawn
    \/ EndOfLoop
    \/ \E t \in targets : StartTask(t)
    \/ \E t \in targets : RunnerReturns(t)
    \/ \E t \in targets : Parse(t)
    \/ \E t \in targets : WriteCsv(t)
    \/ \E t \in targets : WriteCsvPanics(t)
    \/ \E t \in targets : Lock(t)
    \/ \E t \in targets : Insert(t)
    \/ ScopeReturns
    \/ ScopePanics
    \/ LockForCheck
    \/ CheckEmpty
    \/ LockForAggregate
    \/ Aggregate
    \/ Finish
    \/ PlotDirMissing
    \/ PlotNotADir
    \/ PlotGlob
    \/ PlotGlobError
    \/ PlotReadArtifact
    \/ PlotNoData
    \/ PlotAggregate

SpecTop == TopInit /\ [][TopNext]_vars

(***************************************************************************)
(* SpecReplay: Commands::Run into an empty directory, and once it has      *)
(* returned Commands::Plot on the same directory.  The directory then      *)
(* holds the artifacts the run wrote; the aggregate's own files            *)
(* (<dir>_overall_instructions_stats.csv and the chart) do not match the   *)
(* pattern *.instructions.stats.csv.                                       *)
(***************************************************************************)
\* handle_plot_command is called on the directory handle_run_command wrote
PlotAfterRun ==
    /\ main_pc = "returned"
    /\ plot_pc = "idle"
    /\ plot_output_dir' = "dir"
    /\ csv_files' = output_dir
    /\ glob_results' = GlobEntries(ContractOrder, DOMAIN output_dir, {})
    /\ plot_pc' = "start"
    /\ UNCHANGED <<plot_stats, plot_read, plot_series, plot_result,
                   parseVars, storeVars, aggVars, runVars, procVars>>

ReplayNext ==
    \/ NoContractDirs
    \/ EnterScope
    \/ Spawn
    \/ EndOfLoop
    \/ \E t \in targets : StartTask(t)
    \/ \E t \in targets : RunnerReturns(t)
    \/ \E t \in targets : Parse(t)
    \/ \E t \in targets : WriteCsv(t)
    \/ \E t \in targets : WriteCsvPanics(t)
    \/ \E t \in targets : Lock(t)
    \/ \E t \in targets : Insert(t)
    \/ ScopeReturns
    \/ ScopePanics
    \/ LockForCheck
    \/ CheckEmpty
    \/ LockForAggregate
    \/ Aggregate
    \/ Finish
    \/ PlotAfterRun
    \/ PlotGlob
    \/ PlotReadArtifact
    \/ PlotNoData
    \/ PlotAggregate

SpecReplay == Init /\ [][ReplayNext]_vars

(***************************************************************************)
(* Properties of the aggregator (SpecAgg).                                 *)
(***************************************************************************)
\* every relative time that occurs in some series of the map
EventTimes(map) ==
    UNION {{map[id][i].time_taken_millis : i \in DOMAIN map[id]} : id \in DOMAIN map}

\* last observation carried forward: the instructions_covered of the sample
\* of the series with the greatest relative time <= T, 0 if there is none
Locf(series, T) ==
    LET upTo == {i \in DOMAIN series : series[i].time_taken_millis <= T}
    IN IF upTo = {} THEN 0
       ELSE series[CHOOSE i \in upTo : \A j \in upTo :
                      series[j].time_taken_millis <= series[i].time_taken_millis]
               .instructions_covered

RECURSIVE LocfSum(_, _, _)
LocfSum(map, ids, T) ==
    IF ids = {} THEN 0
    ELSE LET id == CHOOSE x \in ids : TRUE
         IN Locf(map[id], T) + LocfSum(map, ids \ {id}, T)

ExampleMap ==
    [id \in {"A", "B"} |->
        IF id = "A" THEN <<StatsEntry(10, 1, 0), StatsEntry(20, 1, 5000)>>
        ELSE <<StatsEntry(5, 1, 2000), StatsEntry(15, 1, 8000)>>]

ExampleGlobalSeries ==
    <<[time |-> 0, instructions |-> 10], [time |-> 2000, instructions |-> 15],
      [time |-> 5000, instructions |-> 25], [time |-> 8000, instructions |-> 35]>>

\* C1: at every event time T the aggregate value is the sum, over all
\* targets, of the instructions_covered of the target's latest sample at or
\* before T (0 for a target with none); for the map A = [(0,10),(5000,20)],
\* B = [(2000,5),(8000,15)] the values at 0, 2000, 5000, 8000 are 10, 15, 25, 35.
C1_AggregateIsLocfSum ==
    agg_output.done =>
        /\ \A T \in EventTimes(agg_input) :
              \E i \in DOMAIN agg_output.series :
                 /\ agg_output.series[i].time = T
                 /\ agg_output.series[i].instructions
                       = LocfSum(agg_input, DOMAIN agg_input, T)
        /\ \A i \in DOMAIN agg_output.series :
              agg_output.series[i].instructions
                 = LocfSum(agg_input, DOMAIN agg_input, agg_output.series[i].time)
        /\ agg_input = ExampleMap => agg_output.series = ExampleGlobalSeries

C1_Witness ==
    /\ agg_output.done
    /\ agg_input = ExampleMap
    /\ Len(agg_output.series) = 4

\* C2: the times of the Global Series are exactly the distinct relative
\* times of the input series, each once, in strictly ascending order.
C2_EventTimesExact ==
    agg_output.done =>
        /\ {agg_output.series[i].time : i \in DOMAIN agg_output.series}
              = EventTimes(agg_input)
        /\ Len(agg_output.series) = Cardinality(EventTimes(agg_input))
        /\ \A i \in 1..Len(agg_output.series) - 1 :
              agg_output.series[i].time < agg_output.series[i + 1].time

\* two targets that share a sample time and differ in another
C2_Witness ==
    /\ agg_output.done
    /\ DOMAIN agg_input = {"A", "B"}
    /\ Len(agg_input["A"]) = 2
    /\ Len(agg_input["B"]) = 2
    /\ agg_input["A"][1].time_taken_millis = agg_input["B"][1].time_taken_millis
    /\ agg_input["A"][2].time_taken_millis # agg_input["B"][2].time_taken_millis
    /\ Len(agg_output.series) = 3

(***************************************************************************)
(* Properties of parse_log (SpecParse).                                    *)
(***************************************************************************)
\* the log is one valid anchor line followed only by well-formed coverage
\* lines at or after the anchor
AnchorThenCoverage(log) ==
    /\ Len(log) >= 1
    /\ log[1].kind = "start"
    /\ log[1].fits
    /\ \A i \in 2..Len(log) :
          /\ log[i].kind = "cov"
          /\ log[i].fits
          /\ log[i].ts >= log[1].ts

\* C4: for an anchor line followed by N well-formed coverage lines at or
\* after the anchor, parsing succeeds with at most N samples, strictly
\* ascending by relative time; there are fewer than N only when two lines
\* share a timestamp; each relative time is a line's timestamp minus the anchor.
C4_ParseSortedDeduped ==
    (parse_result # Running /\ AnchorThenCoverage(log_content)) =>
        LET N == Len(log_content) - 1
            anchor == log_content[1].ts
            out == parse_result.entries
        IN /\ parse_result.ok
           /\ Len(out) <= N
           /\ \A i \in 1..Len(out) - 1 :
                 out[i].time_taken_millis < out[i + 1].time_taken_millis
           /\ Len(out) < N =>
                 \E i, j \in 2..Len(log_content) :
                    i # j /\ log_content[i].ts = log_content[j].ts
           /\ Len(out) = Cardinality({log_content[i].ts : i \in 2..Len(log_content)})
           /\ \A k \in DOMAIN out :
                 \E i \in 2..Len(log_content) :
                    /\ out[k].time_taken_millis = log_content[i].ts - anchor
                    /\ out[k].instructions_covered = log_content[i].ic
                    /\ out[k].branches_covered = log_content[i].bc

\* three coverage lines out of order, two with one timestamp: two samples
C4_Witness ==
    /\ parse_result # Running
    /\ AnchorThenCoverage(log_content)
    /\ Len(log_content) = 4
    /\ log_content[2].ts > log_content[3].ts
    /\ log_content[2].ts = log_content[4].ts
    /\ parse_result.ok
    /\ Len(parse_result.entries) = 2

\* the line at which the anchor is set, 0 if there is none
AnchorIndex(log) ==
    LET starts == {i \in DOMAIN log : log[i].kind = "start"}
    IN IF starts = {} THEN 0 ELSE CHOOSE i \in starts : \A j \in starts : i <= j

\* coverage lines read once the anchor is known, with a timestamp before it
EarlyLines(log) ==
    {i \in DOMAIN log : /\ AnchorIndex(log) # 0
                        /\ i > AnchorIndex(log)
                        /\ log[i].kind = "cov"
                        /\ log[i].fits
                        /\ log[i].ts < log[AnchorIndex(log)].ts}

\* lines on which parse::<u64>() fails
UnparsableLines(log) ==
    {i \in DOMAIN log : \/ i = AnchorIndex(log) /\ ~log[i].fits
                        \/ /\ AnchorIndex(log) # 0
                           /\ i > AnchorIndex(log)
                           /\ log[i].kind = "cov"
                           /\ ~log[i].fits}

\* C5: once the anchor is known, a coverage line with a timestamp smaller
\* than the anchor makes parsing fail and no sample list is returned; the
\* error of the first such line, when the parser reaches it, is the ordering
\* violation naming the task id, that timestamp and the anchor.
C5_EarlyTimestampFails ==
    (parse_result # Running /\ EarlyLines(log_content) # {}) =>
        LET first == CHOOSE i \in EarlyLines(log_content) :
                        \A j \in EarlyLines(log_content) : i <= j
        IN /\ ~parse_result.ok
           /\ parse_result.entries = <<>>
           /\ (\A u \in UnparsableLines(log_content) : first < u) =>
                 parse_result = ParseErr("ordering", log_content[first].ts,
                                         log_content[AnchorIndex(log_content)].ts,
                                         ParseContract)

\* an accepted line, then a line before the anchor
C5_Witness ==
    /\ parse_result # Running
    /\ Len(log_content) = 3
    /\ log_content[1] = StartLine(1500)
    /\ log_content[2] = CovLine(2000, 5, 2)
    /\ log_content[3] = CovLine(1000, 7, 2)
    /\ parse_result = ParseErr("ordering", 1000, 1500, ParseContract)

(***************************************************************************)
(* Properties of the series store (SpecStore).                             *)
(***************************************************************************)
Occurrences(s, x) == Cardinality({i \in DOMAIN s : s[i] = x})

\* C10: reading the artifact write_csv has just written gives the same
\* multiset of (instructions_covered, branches_covered, relative time)
\* tuples as the stored series, a single-sample series included.
C10_StoreRoundTrip ==
    (write_result = "ok" /\ read_result.done) =>
        /\ read_result.ok
        /\ Len(read_result.entries) = Len(store_entries)
        /\ \A e \in Range(store_entries) \cup Range(read_result.entries) :
              Occurrences(read_result.entries, e) = Occurrences(store_entries, e)

C10_Witness ==
    /\ write_result = "ok"
    /\ read_result.done
    /\ Len(store_entries) = 1
    /\ store_entries[1] = StatsEntry(120, 31, 1500)
    /\ read_result.entries = store_entries

(***************************************************************************)
(* Properties of handle_run_command (Spec).                                *)
(***************************************************************************)
\* the pipeline of t fails at none of run_program_with_timeout and parse_log
\* and has entries to store
HasEntries(t) ==
    /\ fuzz_output[t].ok
    /\ ~TrimIsEmpty(fuzz_output[t].log)
    /\ ParseLog(fuzz_output[t].log, t).ok
    /\ ParsedEntries(t) # <<>>

\* C3: a failure of one task's pipeline (spawn failure, parse error, or an
\* error of write_csv) only excludes that task: every other task runs to its
\* end, and the run aggregates the successful tasks and returns Ok.
C3_FailureIsIsolated ==
    (main_pc = "returned" /\ targets # {}) =>
        /\ run_result = "ok"
        /\ \A t \in targets : task_pc[t] \in {"done", "panicked"}
        /\ \A t \in targets :
              (HasEntries(t) /\ task_pc[t] = "done") => t \in DOMAIN all_contract_stats
        /\ DOMAIN all_contract_stats # {} =>
              global_series = AggregateAndPlotData(all_contract_stats)

\* C6: aggregation, and the reading of the map for it, happen only when
\* every dispatched closure has ended.
C6_BarrierBeforeAggregation ==
    (main_pc \in {"check_empty", "checking", "aggregate", "aggregating", "finish"}
     \/ global_series.done)
        => /\ contract_dirs = <<>>
           /\ \A t \in targets : task_pc[t] = "done"
           /\ Executing(task_pc) = {}

C6_Witness ==
    /\ main_pc = "aggregating"
    /\ mutex = LockedBy("main")
    /\ Cardinality(DOMAIN all_contract_stats) = 2
    /\ Cardinality(targets) = 3

\* C7 as stated: with W = args.jobs, at most W pipelines execute at a time.
C7_AtMostJobsExecuting ==
    Cardinality(Executing(task_pc)) <= jobs

\* C7 amended: at most as many pipelines execute as the pool has threads, and
\* the pool has args.jobs threads when args.jobs >= 1.
C7_AtMostPoolSizeExecuting ==
    /\ Cardinality(Executing(task_pc)) <= num_threads
    /\ jobs >= 1 => Cardinality(Executing(task_pc)) <= jobs

\* the budget binds: as many closures run as the pool has threads, one waits
C7_Witness ==
    /\ jobs = 2
    /\ Cardinality(Executing(task_pc)) = 2
    /\ \E t \in targets : task_pc[t] = "queued"

\* C8: the map only grows; each successful task inserts one entry under its
\* own id; no entry is removed or overwritten; a failed task inserts nothing;
\* two insertions are never in progress at once.
C8_MapState ==
    /\ Cardinality({t \in targets : task_pc[t] = "insert"}) <= 1
    /\ \A t \in DOMAIN all_contract_stats :
          /\ t \in targets
          /\ HasEntries(t)
          /\ task_pc[t] = "done"
          /\ all_contract_stats[t] = ParsedEntries(t)
    /\ \A t \in targets :
          (task_pc[t] = "done" /\ HasEntries(t)) => t \in DOMAIN all_contract_stats

C8_MapStep ==
    /\ \A t \in DOMAIN all_contract_stats :
          /\ t \in DOMAIN all_contract_stats'
          /\ all_contract_stats'[t] = all_contract_stats[t]
    /\ \A t \in DOMAIN all_contract_stats' \ DOMAIN all_contract_stats :
          /\ task_pc[t] = "insert"
          /\ task_pc'[t] = "done"
          /\ mutex = LockedBy(t)
    /\ Cardinality(DOMAIN all_contract_stats' \ DOMAIN all_contract_stats) <= 1

C8_MapAppendOnly == []C8_MapState /\ [][C8_MapStep]_vars

\* one task has inserted, another is inserting, a third failed
C8_Witness ==
    /\ Cardinality(DOMAIN all_contract_stats) = 1
    /\ \E t \in targets : task_pc[t] = "insert"
    /\ \E t \in targets : task_pc[t] = "done" /\ ~HasEntries(t)

\* C9: a closure holds the lock only while it inserts: never while its
\* subprocess runs, nor during parse_log or write_csv.
C9_LockOnlyForInsert ==
    \A t \in targets :
        /\ mutex = LockedBy(t) => task_pc[t] = "insert"
        /\ task_pc[t] \in {"queued", "run", "parse", "write", "lock", "done", "panicked"}
              => mutex # LockedBy(t)

\* one closure inserts while another waits for the lock
C9_Witness ==
    \E t, u \in targets :
        /\ mutex = LockedBy(t)
        /\ task_pc[t] = "insert"
        /\ task_pc[u] = "lock"

(***************************************************************************)
(* Properties of run_program_with_timeout (SpecRunner).                    *)
(***************************************************************************)
\* C11: once the timeout child was spawned and wait_with_output collected its
\* exit, the call returns Ok with the text captured from the child's standard
\* output (the valid lines unchanged, in order), whatever the status: 0, a
\* non-zero exit, or 124 for a timeout; Err is returned only when
\* canonicalize, spawn or wait_with_output itself failed, never for a status.
C11_RunnerOkWhateverStatus ==
    runner_result # <<>> =>
        /\ (child.state = "exited" /\ runner_err # "wait") =>
              /\ runner_result[1].ok
              /\ Len(runner_result[1].log) = Len(child.stdout)
              /\ \A i \in DOMAIN child.stdout :
                    child.stdout[i].kind # "invalid_utf8"
                       => runner_result[1].log[i] = child.stdout[i]
        /\ ~runner_result[1].ok => runner_err \in {"canonicalize", "spawn", "wait"}
        /\ runner_result[1].ok => runner_err = "none"

\* the program is ended at the deadline after writing part of its output
C11_Witness ==
    /\ runner_result # <<>>
    /\ child.state = "exited"
    /\ child.status = TimedOutStatus
    /\ Len(child.stdout) = 1
    /\ Len(program_stdout) = 2
    /\ runner_result[1] = RunOk(child.stdout)

\* C12: when program_path names no file, or a file that cannot be run, the
\* runner of ityfuzz-analyzer returns Err, not Ok of empty text.
C12_MissingProgramIsError ==
    (runner_result # <<>> /\ runner_variant = "ityfuzz" /\ program_path # "runnable")
        => ~runner_result[1].ok

(***************************************************************************)
(* End to end properties of handle_run_command (Spec).                     *)
(***************************************************************************)
\* c1 writes an anchor and one coverage line, c2 writes nothing
ExampleOutputs ==
    [t \in {"c1", "c2"} |->
        IF t = "c1" THEN RunOk(<<StartLine(1000), CovLine(1500, 5, 2)>>)
        ELSE RunOk(<<>>)]

\* the header and the row 5,2,500
ExampleArtifact ==
    FileOf(<<HeaderRecord, <<<<"5">>, <<"2">>, <<"5", "0", "0">>>>>>)

\* C13: when the run returns Ok, a target whose captured output is empty has
\* no artifact and no entry in the aggregated map, and a target whose output
\* parses to a non-empty series (and whose write_csv succeeded) has an
\* artifact of the header and one row per sample; for c1 (anchor 1000, one
\* coverage line at 1500 with 5 instructions, 2 branches) and c2 (no output)
\* the artifact of c1 is the row (5, 2, 500), c2 has none and the Global
\* Series is [(500, 5)].
C13_EndToEnd ==
    (main_pc = "returned" /\ run_result = "ok") =>
        /\ \A t \in targets :
              (fuzz_output[t].ok /\ TrimIsEmpty(fuzz_output[t].log)) =>
                  /\ t \notin DOMAIN output_dir
                  /\ t \notin DOMAIN all_contract_stats
        /\ \A t \in targets :
              HasEntries(t) =>
                  /\ t \in DOMAIN output_dir
                  /\ output_dir[t].exists
                  /\ Len(output_dir[t].records) = 1 + Len(ParsedEntries(t))
                  /\ \A i \in DOMAIN ParsedEntries(t) :
                        output_dir[t].records[i + 1] = SerializeEntry(ParsedEntries(t)[i])
                  /\ t \in DOMAIN all_contract_stats
        /\ (targets = {"c1", "c2"} /\ fuzz_output = ExampleOutputs) =>
              /\ DOMAIN output_dir = {"c1"}
              /\ output_dir["c1"] = ExampleArtifact
              /\ global_series.done
              /\ global_series.series = <<[time |-> 500, instructions |-> 5]>>

C13_Witness ==
    /\ main_pc = "returned"
    /\ run_result = "ok"
    /\ targets = {"c1", "c2"}
    /\ fuzz_output = ExampleOutputs
    /\ DOMAIN output_dir = {"c1"}
    /\ Len(global_series.series) = 1

(***************************************************************************)
(* Further properties of the aggregator (SpecAgg).                         *)
(***************************************************************************)
\* C14: for the empty map, and for a map all of whose series are empty,
\* aggregate_and_plot_data returns Ok with an empty Global Series and writes
\* neither the aggregate CSV nor the chart.
C14_EmptyInputNoOutput ==
    (agg_output.done /\ \A id \in DOMAIN agg_input : agg_input[id] = <<>>) =>
        /\ agg_output.ok
        /\ agg_output.series = <<>>
        /\ ~agg_output.wrote

\* two targets, both with an empty series
C14_Witness ==
    /\ agg_output.done
    /\ DOMAIN agg_input = {"A", "B"}
    /\ agg_input["A"] = <<>>
    /\ agg_input["B"] = <<>>
    /\ ~agg_output.wrote

(***************************************************************************)
(* Further properties of parse_log (SpecParse), of the analyzer's parser   *)
(* and of the legacy one.                                                  *)
(***************************************************************************)
\* C15: parsing the empty string returns Ok with an empty sample list, in
\* both parsers.
C15_EmptyStringParses ==
    log_content = <<>> =>
        /\ parse_result # Running => parse_result = ParseOk(<<>>)
        /\ legacy_parse_result # Running => legacy_parse_result = ParseOk(<<>>)

C15_Witness ==
    /\ log_content = <<>>
    /\ parse_result = ParseOk(<<>>)
    /\ legacy_parse_result = ParseOk(<<>>)

\* the log has a coverage line and no anchor line
CoverageWithoutAnchor(log) ==
    /\ \E i \in DOMAIN log : log[i].kind = "cov"
    /\ \A i \in DOMAIN log : log[i].kind # "start"

\* C16: a log with at least one coverage line and no anchor line fails with
\* the anchor-missing error for the task and returns no samples, in both
\* parsers.
C16_AnchorMissingFails ==
    CoverageWithoutAnchor(log_content) =>
        /\ parse_result # Running =>
              parse_result = ParseErr("anchor_missing", 0, 0, ParseContract)
        /\ legacy_parse_result # Running =>
              legacy_parse_result = ParseErr("anchor_missing", 0, 0, ParseContract)

\* other text, then two coverage lines
C16_Witness ==
    /\ Len(log_content) = 3
    /\ log_content[1] = NoiseLine
    /\ log_content[2] = CovLine(1500, 5, 2)
    /\ log_content[3] = CovLine(2000, 7, 2)
    /\ parse_result = ParseErr("anchor_missing", 0, 0, ParseContract)
    /\ legacy_parse_result = ParseErr("anchor_missing", 0, 0, ParseContract)

\* instructions_covered does not decrease as relative time grows
SeriesNonDecreasing(series) ==
    \A i, j \in DOMAIN series :
        series[i].time_taken_millis <= series[j].time_taken_millis
            => series[i].instructions_covered <= series[j].instructions_covered

\* C20: when instructions_covered is non-decreasing in relative time in every
\* series of the input, the aggregate value of the Global Series is
\* non-decreasing in event time; where the aggregate decreases from one event
\* time to the next, some target's own series decreases.
C20_AggregateMonotone ==
    agg_output.done =>
        /\ (\A id \in DOMAIN agg_input : SeriesNonDecreasing(agg_input[id])) =>
              \A i \in 1..Len(agg_output.series) - 1 :
                 agg_output.series[i].instructions
                    <= agg_output.series[i + 1].instructions
        /\ (\E i \in 1..Len(agg_output.series) - 1 :
               agg_output.series[i].instructions > agg_output.series[i + 1].instructions) =>
              \E id \in DOMAIN agg_input : ~SeriesNonDecreasing(agg_input[id])

\* two growing series whose samples interleave in time
C20_Witness ==
    /\ agg_output.done
    /\ DOMAIN agg_input = {"A", "B"}
    /\ Len(agg_input["A"]) = 2
    /\ Len(agg_input["B"]) = 2
    /\ SeriesNonDecreasing(agg_input["A"])
    /\ SeriesNonDecreasing(agg_input["B"])
    /\ agg_input["A"][1].instructions_covered < agg_input["A"][2].instructions_covered
    /\ agg_input["A"][1].time_taken_millis < agg_input["B"][1].time_taken_millis
    /\ agg_input["B"][1].time_taken_millis < agg_input["A"][2].time_taken_millis
    /\ Len(agg_output.series) = 4
    /\ agg_output.series[1].instructions < agg_output.series[4].instructions

(***************************************************************************)
(* Properties of handle_plot_command (SpecPlot).                           *)
(***************************************************************************)
\* read_stats_from_csv gives Ok of at least one entry
Loadable(file) == ReadStatsFromCsv(file).ok /\ ReadStatsFromCsv(file).entries # <<>>

\* C17: in a directory with artifacts that cannot be read or deserialized,
\* handle_plot_command returns Ok; the map it aggregates holds exactly the
\* artifacts that read back with at least one entry, each with the entries
\* read, and the Global Series is the aggregate of that map.
C17_BadArtifactSkipped ==
    (plot_pc = "returned" /\ plot_output_dir = "dir") =>
        /\ plot_result = "ok"
        /\ DOMAIN plot_stats = {id \in DOMAIN csv_files : Loadable(csv_files[id])}
        /\ \A id \in DOMAIN plot_stats :
              plot_stats[id] = ReadStatsFromCsv(csv_files[id]).entries
        /\ DOMAIN plot_stats # {} =>
              /\ plot_series.done
              /\ plot_series = AggregateAndPlotData(plot_stats)

\* a good artifact read before a corrupt one, another after it
C17_Witness ==
    /\ plot_pc = "returned"
    /\ plot_result = "ok"
    /\ DOMAIN csv_files = {"c1", "c2", "c3"}
    /\ csv_files["c2"] = FileOf(<<HeaderRecord, BadNumberRecord>>)
    /\ DOMAIN plot_stats = {"c1", "c3"}
    /\ plot_series.wrote

(***************************************************************************)
(* Properties of the two commands (SpecTop).                               *)
(***************************************************************************)
\* C18: when no target yields a sample (run: no target's output parses to
\* entries; plot: no artifact reads back with entries), the aggregator is
\* not called, so no aggregate CSV or chart is written, and the command
\* returns Ok.
C18_NoSamplesIsSuccess ==
    /\ (main_pc = "returned" /\ targets # {} /\ \A t \in targets : ~HasEntries(t)) =>
          /\ run_result = "ok"
          /\ ~global_series.done
          /\ ~global_series.wrote
          /\ DOMAIN all_contract_stats = {}
    /\ (plot_pc = "returned" /\ plot_output_dir = "dir"
         /\ \A id \in DOMAIN csv_files : ~Loadable(csv_files[id])) =>
          /\ plot_result = "ok"
          /\ ~plot_series.done
          /\ ~plot_series.wrote
          /\ DOMAIN plot_stats = {}

\* three targets: one that could not be started, one without output, one
\* whose log has no anchor
C18_Witness ==
    /\ main_pc = "returned"
    /\ run_result = "ok"
    /\ targets = {"c1", "c2", "c3"}
    /\ fuzz_output["c1"] = RunErr
    /\ fuzz_output["c2"] = RunOk(<<>>)
    /\ fuzz_output["c3"] = RunOk(<<NoiseLine>>)
    /\ ~global_series.done

C19_ConfigState ==
    /\ (main_pc = "returned" /\ targets = {}) =>
          /\ run_result = "err"
          /\ DOMAIN task_pc = {}
          /\ DOMAIN output_dir = {}
          /\ ~global_series.done
    /\ (plot_pc = "returned" /\ plot_output_dir # "dir") =>
          /\ plot_result = "err"
          /\ plot_read = {}
          /\ ~plot_series.done

C19_ConfigStep ==
    /\ (run_result = "none" /\ run_result' = "err") =>
          /\ main_pc = "glob"
          /\ \A t \in targets : task_pc[t] = "unspawned"
    /\ (plot_result = "none" /\ plot_result' = "err") =>
          /\ plot_pc = "start"
          /\ plot_read = {}

\* C19: handle_run_command returns Err when the glob yields no directory,
\* and does so from its first check, before the scope is entered and any
\* closure spawned; handle_plot_command returns Err when args.output_dir is
\* missing or is not a directory, from its first checks, before the glob and
\* before any artifact is read.
C19_ConfigErrorsFirst == []C19_ConfigState /\ [][C19_ConfigStep]_vars

\* the plot command on a path that is a file
C19_Witness ==
    /\ plot_pc = "returned"
    /\ plot_output_dir = "file"
    /\ plot_result = "err"

(***************************************************************************)
(* Properties of parse_log on lines around the anchor (SpecParse).         *)
(***************************************************************************)
\* well-formed coverage lines that stand before the anchor line
PendingLines(log) ==
    {i \in DOMAIN log : /\ AnchorIndex(log) # 0
                        /\ i < AnchorIndex(log)
                        /\ log[i].kind = "cov"
                        /\ log[i].fits}

\* C21: a coverage line that stands before the anchor line is validated
\* against the anchor once it is found: with a timestamp before the anchor
\* parsing fails with the ordering violation, otherwise the line gives a
\* sample with relative time timestamp - anchor (in a log without
\* unparsable numbers and without other early lines).
C21_PendingCoverageValidated ==
    (/\ parse_result # Running
     /\ PendingLines(log_content) # {}
     /\ UnparsableLines(log_content) = {}
     /\ EarlyLines(log_content) = {}) =>
        LET anchor == log_content[AnchorIndex(log_content)].ts
        IN IF \E i \in PendingLines(log_content) : log_content[i].ts < anchor
           THEN /\ ~parse_result.ok
                /\ parse_result.err = "ordering"
           ELSE /\ parse_result.ok
                /\ \A i \in PendingLines(log_content) :
                      \E k \in DOMAIN parse_result.entries :
                         parse_result.entries[k].time_taken_millis
                            = log_content[i].ts - anchor

\* C22: in the legacy parser a coverage line read after the anchor with a
\* timestamp before it makes parsing fail; it is not dropped while the other
\* samples are returned.
C22_LegacyEarlyTimestampFails ==
    (legacy_parse_result # Running /\ EarlyLines(log_content) # {}) =>
        /\ ~legacy_parse_result.ok
        /\ legacy_parse_result.entries = <<>>

(***************************************************************************)
(* Properties of the legacy series store (SpecStore).                      *)
(***************************************************************************)
\* C23: the artifact the legacy write_csv writes for n samples holds one
\* header and n data records, and the legacy read_stats_from_csv of it
\* returns Ok with exactly the n samples stored.
C23_LegacyStoreRoundTrip ==
    /\ legacy_csv_file.exists =>
          Len(legacy_csv_file.records) = 1 + Len(store_entries)
    /\ legacy_read_result.done =>
          /\ legacy_read_result.ok
          /\ legacy_read_result.entries = store_entries

\* coverage lines read once the anchor is known
AcceptedLines(log) ==
    {i \in DOMAIN log : /\ AnchorIndex(log) # 0
                        /\ i > AnchorIndex(log)
                        /\ log[i].kind = "cov"}

C24_AnchorState ==
    /\ began_at_millis # NoAnchor =>
          began_at_millis = log_content[AnchorIndex(log_content)].ts
    /\ (parse_result.ok /\ AnchorIndex(log_content) # 0) =>
          \A k \in DOMAIN parse_result.entries :
             \E i \in AcceptedLines(log_content) :
                parse_result.entries[k].time_taken_millis
                   = log_content[i].ts - log_content[AnchorIndex(log_content)].ts

C24_AnchorStep ==
    began_at_millis # NoAnchor => began_at_millis' = began_at_millis

\* C24: the anchor is set once, by the first line that matches the start
\* marker, and no later marker line changes it; every sample returned is
\* relative to the first marker's value.
C24_FirstAnchorWins == []C24_AnchorState /\ [][C24_AnchorStep]_vars

\* a second marker between two coverage lines
C24_Witness ==
    /\ log_content = <<StartLine(1000), CovLine(1500, 5, 2),
                       StartLine(1500), CovLine(2000, 7, 2)>>
    /\ parse_result = ParseOk(<<StatsEntry(5, 2, 500), StatsEntry(7, 2, 1000)>>)

\* C25: the returned series has one sample per relative time, and of the
\* accepted coverage lines with that relative time it is the sample of the
\* line that stands first in the log.
C25_FirstOccurrenceKept ==
    (parse_result.ok /\ AnchorIndex(log_content) # 0) =>
        LET anchor == log_content[AnchorIndex(log_content)].ts
            out == parse_result.entries
        IN /\ \A k, l \in DOMAIN out :
                 out[k].time_taken_millis = out[l].time_taken_millis => k = l
           /\ \A i \in AcceptedLines(log_content) :
                 \E k \in DOMAIN out :
                    out[k].time_taken_millis = log_content[i].ts - anchor
           /\ \A k \in DOMAIN out :
                 LET same == {i \in AcceptedLines(log_content) :
                                log_content[i].ts - anchor = out[k].time_taken_millis}
                     first == CHOOSE i \in same : \A j \in same : i <= j
                 IN out[k] = StatsEntry(log_content[first].ic, log_content[first].bc,
                                        out[k].time_taken_millis)

\* two lines with one timestamp, apart in the log, with different counts
C25_Witness ==
    /\ log_content = <<StartLine(1000), CovLine(1500, 7, 2),
                       CovLine(2000, 5, 2), CovLine(1500, 5, 2)>>
    /\ parse_result = ParseOk(<<StatsEntry(7, 2, 500), StatsEntry(5, 2, 1000)>>)

\* C26: when a run into an empty directory has returned Ok and plot mode has
\* then returned on that directory, plot mode has loaded exactly the targets
\* of the run's map, each with the same samples, and its Global Series is
\* the run's.
C26_ReplayEquivalence ==
    (run_result = "ok" /\ plot_pc = "returned") =>
        /\ plot_result = "ok"
        /\ DOMAIN plot_stats = DOMAIN all_contract_stats
        /\ \A t \in DOMAIN all_contract_stats : plot_stats[t] = all_contract_stats[t]
        /\ plot_series = global_series

\* a run with two targets in the map, replayed
C26_Witness ==
    /\ run_result = "ok"
    /\ plot_pc = "returned"
    /\ Cardinality(DOMAIN all_contract_stats) >= 2
    /\ \E t \in DOMAIN all_contract_stats : Len(all_contract_stats[t]) = 2
    /\ plot_read = DOMAIN all_contract_stats
    /\ plot_series # NoAggResult

\* the map and the Global Series as the subprocess outputs alone give them
FinalMap == [t \in {u \in targets : HasEntries(u)} |-> ParsedEntries(t)]

FinalSeries ==
    IF DOMAIN FinalMap = {} THEN NoAggResult ELSE AggregateAndPlotData(FinalMap)

\* C27: a run that returns Ok ends with the map and the Global Series that
\* the subprocess outputs determine, whatever the interleaving of the
\* closures and whatever the number of threads.
C27_Deterministic ==
    run_result = "ok" =>
        /\ DOMAIN all_contract_stats = DOMAIN FinalMap
        /\ \A t \in DOMAIN FinalMap : all_contract_stats[t] = FinalMap[t]
        /\ global_series = FinalSeries

\* three targets on two threads, two of them with samples
C27_Witness ==
    /\ run_result = "ok"
    /\ jobs = 2
    /\ Cardinality(targets) = 3
    /\ Cardinality(DOMAIN all_contract_stats) = 2
    /\ \E t, u \in DOMAIN all_contract_stats : all_contract_stats[t] # all_contract_stats[u]
    /\ global_series.done

\* C28: every id in the map has its artifact completely written, with the
\* samples the map holds for it; a closure that holds or asks for the lock
\* has write_csv behind it.
C28_StoreBeforePublish ==
    /\ \A t \in DOMAIN all_contract_stats :
          /\ t \in DOMAIN output_dir
          /\ output_dir[t] = WriteCsvFile(all_contract_stats[t])
          /\ ReadStatsFromCsv(output_dir[t]) = ReadOk(all_contract_stats[t])
    /\ \A t \in targets :
          task_pc[t] \in {"lock", "insert"} =>
              /\ t \in DOMAIN output_dir
              /\ output_dir[t] = WriteCsvFile(ParsedEntries(t))

\* two ids are published while a third closure is still in write_csv
C28_Witness ==
    /\ Cardinality(DOMAIN all_contract_stats) = 2
    /\ \E t \in targets : task_pc[t] = "write" /\ t \notin DOMAIN output_dir

\* the closure of t got text from the subprocess and parse_log fails on it
ParseFails(t) ==
    /\ fuzz_output[t].ok
    /\ ~TrimIsEmpty(fuzz_output[t].log)
    /\ ~ParseLog(fuzz_output[t].log, t).ok

\* C29: a task whose parse_log fails (ordering violation, anchor missing,
\* number too large) returns no series at all, writes no artifact and leaves
\* the map without an entry for it, also when lines before the failing one
\* were accepted.
C29_ParseFailureAllOrNothing ==
    \A t \in targets :
        ParseFails(t) =>
            /\ ParseLog(fuzz_output[t].log, t).entries = <<>>
            /\ t \notin DOMAIN output_dir
            /\ t \notin DOMAIN all_contract_stats
            /\ task_pc[t] \in {"unspawned", "queued", "run", "parse", "done"}

\* the failing line follows an accepted sample; another target is published
C29_Witness ==
    /\ main_pc = "returned"
    /\ \E t \in targets :
          /\ fuzz_output[t] = RunOk(<<StartLine(1000), CovLine(1500, 5, 2), BadCovLine(2000)>>)
          /\ task_pc[t] = "done"
    /\ \E t \in targets :
          /\ fuzz_output[t] = RunOk(<<StartLine(1500), CovLine(1000, 5, 2)>>)
          /\ task_pc[t] = "done"
    /\ Cardinality(DOMAIN all_contract_stats) = 1

\* C30: every run comes to its end: every closure finishes, the scope
\* returns, handle_run_command returns, and the lock is left free; no
\* closure waits for the lock for ever and the emptiness check followed by
\* the aggregation does not block.
C30_RunTerminates ==
    <>[](/\ main_pc = "returned"
         /\ mutex = Unlocked
         /\ \A t \in targets : task_pc[t] \in {"done", "panicked"})

\* three closures have each taken the lock, then the main thread twice
C30_Witness ==
    /\ main_pc = "returned"
    /\ run_result = "ok"
    /\ jobs = 2
    /\ mutex = Unlocked
    /\ Cardinality(DOMAIN all_contract_stats) = 3
    /\ global_series.done

====
